---- MODULE Spec2Model ----
(***************************************************************************)
(* Model of the fault-tolerant JSON decoder: the tokenizer                 *)
(* (lib/tokenizer.ts), the stack parser (lib/parser.ts) and the entry      *)
(* function (lib/index.js).                                                *)
(*                                                                         *)
(* A JavaScript string is a sequence of one-character strings.  A decoded  *)
(* value is a record tagged by "t".  Containers live in a heap indexed by  *)
(* allocation order, because the parser links a child's value into its     *)
(* parent by reference and keeps mutating it afterwards.                   *)
(***************************************************************************)
EXTENDS Integers, Sequences, FiniteSets, TLC

VARIABLES
    jsonString,        \* the argument of jaison(): Str(characters), or a non-string value
    cursor,            \* tokenize(): its pos (0-based, as in the source)
    tokens,            \* the token array tokenize() builds and parse() reads
    i,                 \* parse(): the loop index (0-based, as in the source)
    stacks,            \* parse(): the container stack, a sequence of heap ids
    currentContainer,  \* parse(): heap id of the current container, 0 for null
    heap,              \* the containers allocated so far
    pc,                \* "start", "tokenize", "loop", "returned" or "thrown"
    result,            \* the value parse() returned (meaningful when returned)
    error,             \* the message of the Error thrown (meaningful when thrown)
    legacy             \* src/index.js: the locals of fixJsonString and parseJson, a record

vars ==
    <<jsonString, cursor, tokens, i, stacks, currentContainer, heap, pc, result, error, legacy>>

\* the legacy entry point has not been called
LegacyIdle == [pc |-> "idle"]

-----------------------------------------------------------------------------
(* Sequences *)

RECURSIVE SeqsUpTo(_, _)
SeqsUpTo(S, n) ==
    IF n = 0 THEN {<<>>}
    ELSE LET shorter == SeqsUpTo(S, n - 1)
         IN  shorter \cup {Append(s, x) : s \in {t \in shorter : Len(t) = n - 1}, x \in S}

Last(s) == s[Len(s)]
Front(s) == SubSeq(s, 1, Len(s) - 1)
Drop(s, n) == SubSeq(s, n + 1, Len(s))

RECURSIVE Flatten(_)
Flatten(ss) == IF ss = <<>> THEN <<>> ELSE Head(ss) \o Flatten(Tail(ss))

-----------------------------------------------------------------------------
(* Decoded values *)

Null == [t |-> "null"]
Undefined == [t |-> "undefined"]
Bool(b) == [t |-> "boolean", b |-> b]
Str(s) == [t |-> "string", s |-> s]
\* a finite number is (-1)^neg * m * 10^e, m without trailing zeros; -0 is kept
Num(neg, m, e) == [t |-> "number", nan |-> FALSE, neg |-> neg, m |-> m, e |-> e]
NaN == [t |-> "number", nan |-> TRUE, neg |-> FALSE, m |-> 0, e |-> 0]
Ref(id) == [t |-> "ref", id |-> id]
\* Object.prototype, the prototype of every object literal
ObjectPrototype == [t |-> "Object.prototype"]

-----------------------------------------------------------------------------
(* JavaScript objects: own properties in OrdinaryOwnPropertyKeys order *)

Digits == {"0", "1", "2", "3", "4", "5", "6", "7", "8", "9"}

DigitVal(c) ==
    CASE c = "0" -> 0 [] c = "1" -> 1 [] c = "2" -> 2 [] c = "3" -> 3
      [] c = "4" -> 4 [] c = "5" -> 5 [] c = "6" -> 6 [] c = "7" -> 7
      [] c = "8" -> 8 [] c = "9" -> 9
      [] c \in {"a", "A"} -> 10 [] c \in {"b", "B"} -> 11
      [] c \in {"c", "C"} -> 12 [] c \in {"d", "D"} -> 13
      [] c \in {"e", "E"} -> 14 [] c \in {"f", "F"} -> 15
      [] OTHER -> 99

RECURSIVE DigitsValue(_, _)
DigitsValue(s, radix) ==
    IF s = <<>> THEN 0 ELSE DigitsValue(Front(s), radix) * radix + DigitVal(Last(s))

\* a canonical array index: such keys are listed first, in ascending order
IsArrayIndex(k) ==
    /\ Len(k) > 0
    /\ \A n \in 1..Len(k) : k[n] \in Digits
    /\ (Len(k) > 1 => k[1] # "0")

ProtoKey == <<"_", "_", "p", "r", "o", "t", "o", "_", "_">>

HasOwn(ents, k) == \E n \in 1..Len(ents) : ents[n].k = k

\* where a new own property with key k goes
InsertAt(ents, k) ==
    IF IsArrayIndex(k)
    THEN LET later == {n \in 1..Len(ents) :
                          \/ ~IsArrayIndex(ents[n].k)
                          \/ DigitsValue(ents[n].k, 10) > DigitsValue(k, 10)}
         IN  IF later = {} THEN Len(ents) + 1
             ELSE CHOOSE n \in later : \A o \in later : n <= o
    ELSE Len(ents) + 1

\* CreateDataProperty: what an object literal or JSON.parse does with a key
DefineOwn(ents, k, v) ==
    IF HasOwn(ents, k)
    THEN [n \in 1..Len(ents) |-> IF ents[n].k = k THEN [k |-> k, v |-> v] ELSE ents[n]]
    ELSE LET at == InsertAt(ents, k)
         IN  SubSeq(ents, 1, at - 1) \o <<[k |-> k, v |-> v]>> \o SubSeq(ents, at, Len(ents))

\* obj[k] = v on an object created by {}: an ordinary Set.  The key
\* "__proto__" is the accessor inherited from Object.prototype: its setter
\* replaces the prototype when v is an object or null and creates no own
\* property.
PropertySet(c, k, v) ==
    IF k = ProtoKey /\ ~HasOwn(c.ents, k)
    THEN IF v.t \in {"ref", "null"} THEN [c EXCEPT !.proto = v] ELSE c
    ELSE [c EXCEPT !.ents = DefineOwn(c.ents, k, v)]

-----------------------------------------------------------------------------
(* constants.ts *)

TRUE_ALIAS == {<<"t">>, <<"t", "r">>, <<"t", "r", "u">>, <<"t", "r", "u", "e">>}
FALSE_ALIAS ==
    {<<"f">>, <<"f", "a">>, <<"f", "a", "l">>, <<"f", "a", "l", "s">>,
     <<"f", "a", "l", "s", "e">>}
NULL_ALIAS ==
    {<<"n">>, <<"n", "u">>, <<"n", "u", "l">>, <<"n", "u", "l", "l">>,
     <<"n", "o">>, <<"n", "o", "n">>, <<"n", "o", "n", "e">>,
     <<"n", "i", "l">>, <<"n", "i", "l", "l">>}
UNDEFINED_ALIAS ==
    {<<"u">>, <<"u", "n">>, <<"u", "n", "d">>, <<"u", "n", "d", "e">>,
     <<"u", "n", "d", "e", "f">>, <<"u", "n", "d", "e", "f", "i">>,
     <<"u", "n", "d", "e", "f", "i", "n">>,
     <<"u", "n", "d", "e", "f", "i", "n", "e", "d">>}

\* TOKEN_TYPES.STRING (STRING is a reserved word)
STRING_TOKEN == "string"
BRACKET == "bracket"
PUNCTUATION == "punctuation"
NUMBER == "number"
IDENTIFIER == "identifier"
TOKEN_TYPES == {STRING_TOKEN, BRACKET, PUNCTUATION, NUMBER, IDENTIFIER}

OBJECT == "object"
ARRAY == "array"

BINARY == 2
OCTAL == 8
DECIMAL == 10
HEXADECIMAL == 16

-----------------------------------------------------------------------------
(* Tokens.  radix is 0 where the source leaves it undefined. *)

Token(type, value) ==
    [type |-> type, value |-> value, radix |-> 0, isNegative |-> FALSE, isPositive |-> FALSE]
NumberToken(value, radix, isNegative, isPositive) ==
    [type |-> NUMBER, value |-> value, radix |-> radix,
     isNegative |-> isNegative, isPositive |-> isPositive]

-----------------------------------------------------------------------------
(* Characters *)

Quote == "\""
Backslash == "\\"
\* the characters below U+0020 that the model's alphabets use
ControlChars == {"\t", "\n", "\f", "\r"}
CharCode(c) ==
    CASE c = "\t" -> 9 [] c = "\n" -> 10 [] c = "\f" -> 12 [] c = "\r" -> 13
      [] c = " " -> 32 [] c = Quote -> 34 [] c = "A" -> 65 [] c = "a" -> 97
      [] OTHER -> 0
\* String.fromCharCode, for the code units the alphabets name
CharOfCode(n) ==
    CASE n = 9 -> "\t" [] n = 10 -> "\n" [] n = 12 -> "\f" [] n = 13 -> "\r"
      [] n = 32 -> " " [] n = 34 -> Quote [] n = 65 -> "A" [] n = 97 -> "a"
      [] OTHER -> "\\u" \o ToString(n)
HexChars ==
    <<"0", "1", "2", "3", "4", "5", "6", "7", "8", "9", "a", "b", "c", "d", "e", "f">>
HexDigitSet == Digits \cup {"a", "b", "c", "d", "e", "f", "A", "B", "C", "D", "E", "F"}

UpperCase ==
    <<"A", "B", "C", "D", "E", "F", "G", "H", "I", "J", "K", "L", "M",
      "N", "O", "P", "Q", "R", "S", "T", "U", "V", "W", "X", "Y", "Z">>
LowerCase ==
    <<"a", "b", "c", "d", "e", "f", "g", "h", "i", "j", "k", "l", "m",
      "n", "o", "p", "q", "r", "s", "t", "u", "v", "w", "x", "y", "z">>
ToLowerChar(c) ==
    IF \E n \in 1..26 : UpperCase[n] = c
    THEN LowerCase[CHOOSE n \in 1..26 : UpperCase[n] = c]
    ELSE c
toLowerCase(s) == [n \in 1..Len(s) |-> ToLowerChar(s[n])]

-----------------------------------------------------------------------------
(* JSON.parse of a text that starts with a double quote: the decoded string,
   or a SyntaxError *)

JsonWhitespace == {" ", "\t", "\n", "\r"}
Ok(v) == [ok |-> TRUE, v |-> v]
Fail == [ok |-> FALSE, v |-> Undefined]

SimpleEscape(c) ==
    CASE c = Quote -> Quote [] c = Backslash -> Backslash [] c = "/" -> "/"
      [] c = "b" -> "\\b" [] c = "f" -> "\f" [] c = "n" -> "\n"
      [] c = "r" -> "\r" [] c = "t" -> "\t"

RECURSIVE JsonStringBody(_, _, _)
JsonStringBody(s, p, acc) ==
    IF p > Len(s) THEN Fail
    ELSE IF s[p] = Quote
    THEN IF \A n \in (p + 1)..Len(s) : s[n] \in JsonWhitespace THEN Ok(Str(acc)) ELSE Fail
    ELSE IF s[p] = Backslash
    THEN IF p + 1 > Len(s) THEN Fail
         ELSE IF s[p + 1] \in {Quote, Backslash, "/", "b", "f", "n", "r", "t"}
         THEN JsonStringBody(s, p + 2, Append(acc, SimpleEscape(s[p + 1])))
         ELSE IF /\ s[p + 1] = "u"
                 /\ p + 5 <= Len(s)
                 /\ \A n \in (p + 2)..(p + 5) : s[n] \in HexDigitSet
         THEN JsonStringBody(s, p + 6,
                  Append(acc, CharOfCode(DigitsValue(SubSeq(s, p + 2, p + 5), 16))))
         ELSE Fail
    ELSE IF s[p] \in ControlChars THEN Fail
    ELSE JsonStringBody(s, p + 1, Append(acc, s[p]))

JsonParseString(s) ==
    IF s # <<>> /\ s[1] = Quote THEN JsonStringBody(s, 2, <<>>) ELSE Fail

-----------------------------------------------------------------------------
(* parseFloat and parseInt *)

RECURSIVE Normalize(_, _, _)
Normalize(neg, m, e) ==
    IF m = 0 THEN Num(neg, 0, 0)
    ELSE IF m % 10 = 0 THEN Normalize(neg, m \div 10, e + 1)
    ELSE Num(neg, m, e)

\* the end of the longest run of characters of S in s that starts at p
RECURSIVE RunEnd(_, _, _)
RunEnd(s, p, S) == IF p <= Len(s) /\ s[p] \in S THEN RunEnd(s, p + 1, S) ELSE p

Negate(v) == IF v.nan THEN v ELSE [v EXCEPT !.neg = ~v.neg]

\* the longest prefix of s that is a StrDecimalLiteral, NaN when there is none
ParseFloat(s) ==
    LET signed == s # <<>> /\ s[1] \in {"+", "-"}
        neg == signed /\ s[1] = "-"
        p0 == IF signed THEN 2 ELSE 1
        p1 == RunEnd(s, p0, Digits)
        hasDot == p1 <= Len(s) /\ s[p1] = "."
        p2 == IF hasDot THEN RunEnd(s, p1 + 1, Digits) ELSE p1
        int == SubSeq(s, p0, p1 - 1)
        frac == IF hasDot THEN SubSeq(s, p1 + 1, p2 - 1) ELSE <<>>
        hasE == p2 <= Len(s) /\ s[p2] \in {"e", "E"}
        esigned == hasE /\ p2 + 1 <= Len(s) /\ s[p2 + 1] \in {"+", "-"}
        p3 == IF esigned THEN p2 + 2 ELSE p2 + 1
        p4 == IF hasE THEN RunEnd(s, p3, Digits) ELSE p3
        hasExp == hasE /\ p4 > p3
        exp == IF hasExp THEN DigitsValue(SubSeq(s, p3, p4 - 1), 10) ELSE 0
        sexp == IF esigned /\ s[p2 + 1] = "-" THEN 0 - exp ELSE exp
    IN  IF int = <<>> /\ frac = <<>> THEN NaN
        ELSE Normalize(neg, DigitsValue(int \o frac, 10), sexp - Len(frac))

RadixDigits(radix) == {c \in HexDigitSet : DigitVal(c) < radix}

ParseInt(s, radix) ==
    LET signed == s # <<>> /\ s[1] \in {"+", "-"}
        neg == signed /\ s[1] = "-"
        p0 == IF signed THEN 2 ELSE 1
        prefixed == radix = 16 /\ p0 + 1 <= Len(s) /\ s[p0] = "0" /\ s[p0 + 1] \in {"x", "X"}
        p1 == IF prefixed THEN p0 + 2 ELSE p0
        p2 == RunEnd(s, p1, RadixDigits(radix))
    IN  IF p2 = p1 THEN NaN
        ELSE Normalize(neg, DigitsValue(SubSeq(s, p1, p2 - 1), radix), 0)

-----------------------------------------------------------------------------
(* parser.ts: containers *)

\* a Container {type, value, _key}: ents/proto are the value of an OBJECT,
\* els the value of an ARRAY; hasKey is (_key !== undefined)
NewContainer(type) ==
    [type |-> type, ents |-> <<>>, els |-> <<>>, proto |-> ObjectPrototype,
     hasKey |-> FALSE, key |-> <<>>]

\* String(undefined): the property name an undefined _key would be used as
UndefinedKey == <<"u", "n", "d", "e", "f", "i", "n", "e", "d">>
KeyOf(c) == IF c.hasKey THEN c.key ELSE UndefinedKey

\* container.value[container._key] = v; delete container._key
SetPendingKey(c, v) == [PropertySet(c, KeyOf(c), v) EXCEPT !.hasKey = FALSE, !.key = <<>>]

\* the value a reference denotes, with everything it reaches
RECURSIVE Materialize(_, _)
Materialize(h, v) ==
    IF v.t # "ref" THEN v
    ELSE LET c == h[v.id]
         IN  IF c.type = ARRAY
             THEN [t |-> ARRAY, els |-> [n \in 1..Len(c.els) |-> Materialize(h, c.els[n])]]
             ELSE [t |-> OBJECT,
                   ents |-> [n \in 1..Len(c.ents) |->
                                [k |-> c.ents[n].k, v |-> Materialize(h, c.ents[n].v)]],
                   proto |-> Materialize(h, c.proto)]

\* tokens[n], 0-based as in the source
Tok(toks, n) == toks[n + 1]
NextIsComma(toks, index) == index + 1 < Len(toks) /\ Tok(toks, index + 1).value = <<",">>

BracketResult(h, stk, shouldReturn, value, newContainer, skipNext) ==
    [heap |-> h, stacks |-> stk, shouldReturn |-> shouldReturn, value |-> value,
     newContainer |-> newContainer, skipNext |-> skipNext, threw |-> FALSE, error |-> ""]
Thrown(h, stk, message) ==
    [heap |-> h, stacks |-> stk, shouldReturn |-> FALSE, value |-> Undefined,
     newContainer |-> 0, skipNext |-> FALSE, threw |-> TRUE, error |-> message]

\* mutant of LinkIntoParent: the pending key is used but not deleted
LinkIntoParent_KeepsKey(h, cur, id) ==
    IF cur = 0 THEN h
    ELSE IF h[cur].type = OBJECT /\ h[cur].hasKey
    THEN [h EXCEPT ![cur] = PropertySet(h[cur], KeyOf(h[cur]), Ref(id))]
    ELSE IF h[cur].type = ARRAY
    THEN [h EXCEPT ![cur].els = Append(@, Ref(id))]
    ELSE h

\* "Add to parent container if exists"
LinkIntoParent(h, cur, id) ==
    IF cur = 0 THEN h
    ELSE IF h[cur].type = OBJECT /\ h[cur].hasKey
    THEN [h EXCEPT ![cur] = SetPendingKey(h[cur], Ref(id))]
    ELSE IF h[cur].type = ARRAY
    THEN [h EXCEPT ![cur].els = Append(@, Ref(id))]
    ELSE h

createObjectContainer(cur, stk, h) ==
    LET id == Len(h) + 1
    IN  BracketResult(Append(LinkIntoParent(h, cur, id), NewContainer(OBJECT)),
                      Append(stk, id), FALSE, Undefined, id, FALSE)

createArrayContainer(cur, stk, h) ==
    LET id == Len(h) + 1
    IN  BracketResult(Append(LinkIntoParent(h, cur, id), NewContainer(ARRAY)),
                      Append(stk, id), FALSE, Undefined, id, FALSE)

\* mutant of closeContainer: returns only when no token is left
closeContainer_KeepsParsing(stk, h, toks, index, errorMessage) ==
    IF Len(stk) > 0
    THEN LET completedContainer == Last(stk)
             popped == Front(stk)
         IN  IF Len(popped) > 0
             THEN BracketResult(h, popped, FALSE, Undefined, Last(popped),
                                NextIsComma(toks, index))
             ELSE IF index + 1 < Len(toks)
             THEN BracketResult(h, popped, FALSE, Undefined, 0, FALSE)
             ELSE BracketResult(h, popped, TRUE, Ref(completedContainer), 0, FALSE)
    ELSE Thrown(h, stk, errorMessage)

\* mutant of closeContainer: with an empty stack it returns undefined
closeContainer_EmptyReturns(stk, h, toks, index, errorMessage) ==
    IF Len(stk) > 0
    THEN LET completedContainer == Last(stk)
             popped == Front(stk)
         IN  IF Len(popped) > 0
             THEN BracketResult(h, popped, FALSE, Undefined, Last(popped),
                                NextIsComma(toks, index))
             ELSE BracketResult(h, popped, TRUE, Ref(completedContainer), 0, FALSE)
    ELSE BracketResult(h, stk, TRUE, Undefined, 0, FALSE)

\* mutant of closeContainer: the parent is not made current again
closeContainer_KeepsCurrent(stk, h, toks, index, errorMessage) ==
    IF Len(stk) > 0
    THEN LET completedContainer == Last(stk)
             popped == Front(stk)
         IN  IF Len(popped) > 0
             THEN BracketResult(h, popped, FALSE, Undefined, 0, NextIsComma(toks, index))
             ELSE BracketResult(h, popped, TRUE, Ref(completedContainer), 0, FALSE)
    ELSE Thrown(h, stk, errorMessage)

\* mutant of closeContainer: the completed container stays the current one
closeContainer_CompletedIsCurrent(stk, h, toks, index, errorMessage) ==
    IF Len(stk) > 0
    THEN LET completedContainer == Last(stk)
             popped == Front(stk)
         IN  IF Len(popped) > 0
             THEN BracketResult(h, popped, FALSE, Undefined, completedContainer,
                                NextIsComma(toks, index))
             ELSE BracketResult(h, popped, TRUE, Ref(completedContainer), 0, FALSE)
    ELSE Thrown(h, stk, errorMessage)

closeContainer(stk, h, toks, index, errorMessage) ==
    IF Len(stk) > 0
    THEN LET completedContainer == Last(stk)
             popped == Front(stk)
         IN  IF Len(popped) > 0
             THEN BracketResult(h, popped, FALSE, Undefined, Last(popped),
                                NextIsComma(toks, index))
             ELSE BracketResult(h, popped, TRUE, Ref(completedContainer), 0, FALSE)
    ELSE Thrown(h, stk, errorMessage)

handleBracketToken(token, cur, stk, h, toks, index) ==
    IF token.value = <<"{">> THEN createObjectContainer(cur, stk, h)
    ELSE IF token.value = <<"}">>
    THEN closeContainer(stk, h, toks, index, "Unmatched closing brace")
    ELSE IF token.value = <<"[">> THEN createArrayContainer(cur, stk, h)
    ELSE IF token.value = <<"]">>
    THEN closeContainer(stk, h, toks, index, "Unmatched closing bracket")
    ELSE BracketResult(h, stk, FALSE, Undefined, 0, FALSE)

-----------------------------------------------------------------------------
(* parser.ts: leaf values *)

\* mutant of parseIdentifierValue: the alias sets are matched case-sensitively
parseIdentifierValue_CaseSensitive(token) ==
    LET tokenValue == token.value
    IN  IF tokenValue \in TRUE_ALIAS THEN Bool(TRUE)
        ELSE IF tokenValue \in FALSE_ALIAS THEN Bool(FALSE)
        ELSE IF tokenValue \in NULL_ALIAS THEN Null
        ELSE IF tokenValue \in UNDEFINED_ALIAS THEN Undefined
        ELSE Str(tokenValue)

parseIdentifierValue(token) ==
    LET tokenValue == token.value
        tokenValueLower == toLowerCase(tokenValue)
    IN  IF tokenValueLower \in TRUE_ALIAS THEN Bool(TRUE)
        ELSE IF tokenValueLower \in FALSE_ALIAS THEN Bool(FALSE)
        ELSE IF tokenValueLower \in NULL_ALIAS THEN Null
        ELSE IF tokenValueLower \in UNDEFINED_ALIAS THEN Undefined
        ELSE Str(tokenValue)

\* '\\u' + ('000' + code.toString(16)).slice(-4), for a control character
EscapeControl(c) ==
    LET code == CharCode(c)
    IN  <<Backslash, "u", "0", "0", HexChars[(code \div 16) + 1], HexChars[(code % 16) + 1]>>

EscapeControls(s) ==
    Flatten([n \in 1..Len(s) |-> IF s[n] \in ControlChars THEN EscapeControl(s[n]) ELSE <<s[n]>>])

\* mutant of parseStringValue: the text between the quotes, escapes not interpreted
parseStringValue_Raw(token) == Ok(Str(SubSeq(token.value, 2, Len(token.value) - 1)))

\* mutant of parseStringValue: content that JSON.parse rejects is returned as written
parseStringValue_Lenient(token) ==
    LET decoded == JsonParseString(EscapeControls(token.value))
    IN  IF decoded.ok THEN decoded ELSE Ok(Str(token.value))

\* Ok(string), or Fail when JSON.parse throws
parseStringValue(token) == JsonParseString(EscapeControls(token.value))

\* mutant of parseNumberValue: the prefix of an octal or binary text is kept
parseNumberValue_KeepsPrefix(token) ==
    LET numValue == token.value
        value == IF token.radix = HEXADECIMAL THEN ParseInt(numValue, 16)
                 ELSE IF token.radix = OCTAL THEN ParseInt(numValue, 8)
                 ELSE IF token.radix = BINARY THEN ParseInt(numValue, 2)
                 ELSE ParseFloat(numValue)
    IN  IF token.isNegative THEN Negate(value) ELSE value

parseNumberValue(token) ==
    LET numValue == token.value
        value == IF token.radix = HEXADECIMAL THEN ParseInt(numValue, 16)
                 ELSE IF token.radix = OCTAL THEN ParseInt(Drop(numValue, 2), 8)
                 ELSE IF token.radix = BINARY THEN ParseInt(Drop(numValue, 2), 2)
                 ELSE ParseFloat(numValue)
    IN  IF token.isNegative THEN Negate(value) ELSE value

parseValueToken(token) ==
    IF token.type = IDENTIFIER THEN Ok(parseIdentifierValue(token))
    ELSE IF token.type = STRING_TOKEN THEN parseStringValue(token)
    ELSE IF token.type = NUMBER THEN Ok(parseNumberValue(token))
    ELSE Ok(Null)

-----------------------------------------------------------------------------
(* parser.ts: keys, punctuation, assignment *)

KeyResult(isKey, shouldContinue, shouldThrow, key) ==
    [isKey |-> isKey, shouldContinue |-> shouldContinue, shouldThrow |-> shouldThrow,
     key |-> key, threw |-> FALSE]
\* JSON.parse threw inside handleObjectKey
KeyDecodeFailed ==
    [isKey |-> FALSE, shouldContinue |-> FALSE, shouldThrow |-> FALSE,
     key |-> <<>>, threw |-> TRUE]

\* mutant of handleObjectKey: a comma in key position is rejected like a colon
handleObjectKey_CommaThrows(token) ==
    IF token.type = STRING_TOKEN
    THEN LET decoded == parseStringValue(token)
         IN  IF decoded.ok THEN KeyResult(TRUE, FALSE, FALSE, decoded.v.s)
             ELSE KeyDecodeFailed
    ELSE IF token.type \in {NUMBER, IDENTIFIER}
    THEN IF token.type = NUMBER /\ token.isNegative
         THEN KeyResult(TRUE, FALSE, FALSE, <<"-">> \o token.value)
         ELSE IF token.type = NUMBER /\ token.isPositive
         THEN KeyResult(TRUE, FALSE, FALSE, <<"+">> \o token.value)
         ELSE KeyResult(TRUE, FALSE, FALSE, token.value)
    ELSE KeyResult(FALSE, FALSE, TRUE, <<>>)

\* mutant of handleObjectKey: the sign of a NUMBER is left out of the key
handleObjectKey_Unsigned(token) ==
    IF token.type = STRING_TOKEN
    THEN LET decoded == parseStringValue(token)
         IN  IF decoded.ok THEN KeyResult(TRUE, FALSE, FALSE, decoded.v.s)
             ELSE KeyDecodeFailed
    ELSE IF token.type \in {NUMBER, IDENTIFIER}
    THEN KeyResult(TRUE, FALSE, FALSE, token.value)
    ELSE IF token.type = PUNCTUATION
    THEN IF token.value = <<",">> THEN KeyResult(FALSE, TRUE, FALSE, <<>>)
         ELSE KeyResult(FALSE, FALSE, TRUE, <<>>)
    ELSE KeyResult(FALSE, FALSE, TRUE, <<>>)

\* mutant of handleObjectKey: a colon in key position is passed over like a comma
handleObjectKey_ColonSkipped(token) ==
    IF token.type = STRING_TOKEN
    THEN LET decoded == parseStringValue(token)
         IN  IF decoded.ok THEN KeyResult(TRUE, FALSE, FALSE, decoded.v.s)
             ELSE KeyDecodeFailed
    ELSE IF token.type \in {NUMBER, IDENTIFIER}
    THEN IF token.type = NUMBER /\ token.isNegative
         THEN KeyResult(TRUE, FALSE, FALSE, <<"-">> \o token.value)
         ELSE IF token.type = NUMBER /\ token.isPositive
         THEN KeyResult(TRUE, FALSE, FALSE, <<"+">> \o token.value)
         ELSE KeyResult(TRUE, FALSE, FALSE, token.value)
    ELSE IF token.type = PUNCTUATION THEN KeyResult(FALSE, TRUE, FALSE, <<>>)
    ELSE KeyResult(FALSE, FALSE, TRUE, <<>>)

handleObjectKey(token) ==
    IF token.type = STRING_TOKEN
    THEN LET decoded == parseStringValue(token)
         IN  IF decoded.ok THEN KeyResult(TRUE, FALSE, FALSE, decoded.v.s)
             ELSE KeyDecodeFailed
    ELSE IF token.type \in {NUMBER, IDENTIFIER}
    THEN IF token.type = NUMBER /\ token.isNegative
         THEN KeyResult(TRUE, FALSE, FALSE, <<"-">> \o token.value)
         ELSE IF token.type = NUMBER /\ token.isPositive
         THEN KeyResult(TRUE, FALSE, FALSE, <<"+">> \o token.value)
         ELSE KeyResult(TRUE, FALSE, FALSE, token.value)
    ELSE IF token.type = PUNCTUATION
    THEN IF token.value = <<",">> THEN KeyResult(FALSE, TRUE, FALSE, <<>>)
         ELSE KeyResult(FALSE, FALSE, TRUE, <<>>)
    ELSE KeyResult(FALSE, FALSE, TRUE, <<>>)

PunctuationResult(h, shouldThrow, shouldContinue) ==
    [heap |-> h, shouldThrow |-> shouldThrow, shouldContinue |-> shouldContinue]

\* "insert null": the pending key of the current OBJECT is given null
InsertNull(h, cur) ==
    IF cur # 0 /\ h[cur].type = OBJECT /\ h[cur].hasKey
    THEN [h EXCEPT ![cur] = SetPendingKey(h[cur], Null)]
    ELSE h

\* mutant of handlePunctuationToken: a colon gives its key null whatever follows
handlePunctuationToken_ColonAlwaysNull(token, toks, index, cur, stk, h) ==
    IF Len(stk) = 0 THEN PunctuationResult(h, TRUE, FALSE)
    ELSE IF token.value = <<",">>
    THEN IF cur # 0 /\ h[cur].type = ARRAY
         THEN PunctuationResult([h EXCEPT ![cur].els = Append(@, Null)], FALSE, TRUE)
         ELSE PunctuationResult(h, FALSE, TRUE)
    ELSE IF token.value = <<":">>
    THEN PunctuationResult(InsertNull(h, cur), FALSE, TRUE)
    ELSE PunctuationResult(h, FALSE, TRUE)

\* mutant of handlePunctuationToken: punctuation with an empty stack is passed over
handlePunctuationToken_EmptyContinues(token, toks, index, cur, stk, h) ==
    IF Len(stk) = 0 THEN PunctuationResult(h, FALSE, TRUE)
    ELSE IF token.value = <<",">>
    THEN IF cur # 0 /\ h[cur].type = ARRAY
         THEN PunctuationResult([h EXCEPT ![cur].els = Append(@, Null)], FALSE, TRUE)
         ELSE PunctuationResult(h, FALSE, TRUE)
    ELSE IF token.value = <<":">>
    THEN IF index + 1 < Len(toks)
         THEN LET nextToken == Tok(toks, index + 1)
              IN  IF nextToken.value = <<",">> \/ nextToken.value = <<"}">>
                  THEN PunctuationResult(InsertNull(h, cur), FALSE, TRUE)
                  ELSE PunctuationResult(h, FALSE, TRUE)
         ELSE PunctuationResult(InsertNull(h, cur), FALSE, TRUE)
    ELSE PunctuationResult(h, FALSE, TRUE)

handlePunctuationToken(token, toks, index, cur, stk, h) ==
    IF Len(stk) = 0 THEN PunctuationResult(h, TRUE, FALSE)
    ELSE IF token.value = <<",">>
    THEN IF cur # 0 /\ h[cur].type = ARRAY
         THEN PunctuationResult([h EXCEPT ![cur].els = Append(@, Null)], FALSE, TRUE)
         ELSE PunctuationResult(h, FALSE, TRUE)
    ELSE IF token.value = <<":">>
    THEN IF index + 1 < Len(toks)
         THEN LET nextToken == Tok(toks, index + 1)
              IN  IF nextToken.value = <<",">> \/ nextToken.value = <<"}">>
                  THEN PunctuationResult(InsertNull(h, cur), FALSE, TRUE)
                  ELSE PunctuationResult(h, FALSE, TRUE)
         ELSE PunctuationResult(InsertNull(h, cur), FALSE, TRUE)
    ELSE PunctuationResult(h, FALSE, TRUE)

AssignResult(h, shouldReturn, value, skipNext) ==
    [heap |-> h, shouldReturn |-> shouldReturn, value |-> value, skipNext |-> skipNext]

\* mutant of assignValue: the comma after the value is left to the loop
assignValue_NeverSkips(value, cur, toks, index, h) ==
    IF cur # 0
    THEN LET assigned == IF h[cur].type = OBJECT
                         THEN [h EXCEPT ![cur] = SetPendingKey(h[cur], value)]
                         ELSE [h EXCEPT ![cur].els = Append(@, value)]
         IN  AssignResult(assigned, FALSE, Undefined, FALSE)
    ELSE AssignResult(h, TRUE, value, FALSE)

\* mutant of assignValue: a value with no container open is dropped and the loop goes on
assignValue_TopLevelContinues(value, cur, toks, index, h) ==
    IF cur # 0
    THEN LET assigned == IF h[cur].type = OBJECT
                         THEN [h EXCEPT ![cur] = SetPendingKey(h[cur], value)]
                         ELSE [h EXCEPT ![cur].els = Append(@, value)]
         IN  AssignResult(assigned, FALSE, Undefined, NextIsComma(toks, index))
    ELSE AssignResult(h, FALSE, Undefined, FALSE)

assignValue(value, cur, toks, index, h) ==
    IF cur # 0
    THEN LET assigned == IF h[cur].type = OBJECT
                         THEN [h EXCEPT ![cur] = SetPendingKey(h[cur], value)]
                         ELSE [h EXCEPT ![cur].els = Append(@, value)]
         IN  AssignResult(assigned, FALSE, Undefined, NextIsComma(toks, index))
    ELSE AssignResult(h, TRUE, value, FALSE)

\* mutant of handleUnclosedContainers: with an empty stack the value is null
handleUnclosedContainers_EmptyIsNull(stk, cur, h) ==
    IF Len(stk) > 0
    THEN [heap |-> InsertNull(h, cur), value |-> Ref(stk[1])]
    ELSE [heap |-> h, value |-> Null]

\* [value, heap]
handleUnclosedContainers(stk, cur, h) ==
    IF Len(stk) > 0
    THEN [heap |-> InsertNull(h, cur), value |-> Ref(stk[1])]
    ELSE [heap |-> h, value |-> Undefined]

-----------------------------------------------------------------------------
(* parser.ts: parse().  The parser state is the record
   [i, stacks, currentContainer, heap, pc, result, error]. *)

Returned(st, h, value) ==
    [st EXCEPT !.heap = h, !.pc = "returned", !.result = Materialize(h, value)]
Threw(st, message) == [st EXCEPT !.pc = "thrown", !.error = message]

\* lines 68-85
BracketStep(toks, st) ==
    LET r == handleBracketToken(Tok(toks, st.i), st.currentContainer, st.stacks,
                                st.heap, toks, st.i)
    IN  IF r.threw THEN Threw(st, r.error)
        ELSE IF r.shouldReturn
        THEN Returned([st EXCEPT !.stacks = r.stacks], r.heap, r.value)
        ELSE [st EXCEPT !.heap = r.heap,
                        !.stacks = r.stacks,
                        !.currentContainer =
                            IF r.newContainer # 0 THEN r.newContainer ELSE @,
                        !.i = IF r.skipNext THEN @ + 2 ELSE @ + 1]

\* the condition of lines 88-90
InKeyPosition(st) ==
    /\ st.currentContainer # 0
    /\ st.heap[st.currentContainer].type = OBJECT
    /\ ~st.heap[st.currentContainer].hasKey

\* the end of the run of IDENTIFIER tokens that starts at index: j of lines 124-129
RECURSIVE IdentifierRunEnd(_, _)
IdentifierRunEnd(toks, j) ==
    IF j < Len(toks) /\ Tok(toks, j).type = IDENTIFIER
    THEN IdentifierRunEnd(toks, j + 1)
    ELSE j

\* mutant of JoinValues: join('') instead of join(' ')
RECURSIVE JoinValues_NoSeparator(_, _, _)
JoinValues_NoSeparator(toks, from, to) ==
    IF from + 1 >= to THEN Tok(toks, from).value
    ELSE Tok(toks, from).value \o JoinValues_NoSeparator(toks, from + 1, to)

\* Array.prototype.join(' ') of the values of tokens[from..to-1]
RECURSIVE JoinValues(_, _, _)
JoinValues(toks, from, to) ==
    IF from + 1 >= to THEN Tok(toks, from).value
    ELSE Tok(toks, from).value \o <<" ">> \o JoinValues(toks, from + 1, to)

\* lines 116-151
ValueStep(toks, st) ==
    LET token == Tok(toks, st.i)
        j == IdentifierRunEnd(toks, st.i + 1)
        merge == token.type = IDENTIFIER /\ st.currentContainer # 0 /\ j - st.i > 1
        decoded == IF merge THEN Ok(Str(JoinValues(toks, st.i, j))) ELSE parseValueToken(token)
        index == IF merge THEN j - 1 ELSE st.i
    IN  IF ~decoded.ok THEN Threw(st, "SyntaxError")
        ELSE LET a == assignValue(decoded.v, st.currentContainer, toks, index, st.heap)
             IN  IF a.shouldReturn THEN Returned(st, a.heap, a.value)
                 ELSE [st EXCEPT !.heap = a.heap,
                                 !.i = IF a.skipNext THEN index + 2 ELSE index + 1]

\* lines 87-101
KeyStep(toks, st) ==
    LET token == Tok(toks, st.i)
        keyResult == handleObjectKey(token)
    IN  IF keyResult.threw THEN Threw(st, "SyntaxError")
        ELSE IF keyResult.isKey
        THEN [st EXCEPT !.heap[st.currentContainer].hasKey = TRUE,
                        !.heap[st.currentContainer].key = keyResult.key,
                        !.i = @ + 1]
        ELSE IF keyResult.shouldContinue THEN [st EXCEPT !.i = @ + 1]
        ELSE Threw(st, "Unexpected token when expecting a key in an object")

\* lines 103-114
PunctuationStep(toks, st) ==
    LET r == handlePunctuationToken(Tok(toks, st.i), toks, st.i, st.currentContainer,
                                    st.stacks, st.heap)
    IN  IF r.shouldThrow
        THEN Threw(st, "Unexpected punctuation outside of object or array context")
        ELSE [st EXCEPT !.heap = r.heap, !.i = @ + 1]

\* line 155
EndStep(st) ==
    LET r == handleUnclosedContainers(st.stacks, st.currentContainer, st.heap)
    IN  Returned(st, r.heap, r.value)

\* which branch of the loop body takes tokens[i]
IsBracketStep(toks, st) == Tok(toks, st.i).type = BRACKET
IsKeyStep(toks, st) == ~IsBracketStep(toks, st) /\ InKeyPosition(st)
IsPunctuationStep(toks, st) ==
    ~IsBracketStep(toks, st) /\ ~InKeyPosition(st) /\ Tok(toks, st.i).type = PUNCTUATION
IsValueStep(toks, st) ==
    ~IsBracketStep(toks, st) /\ ~InKeyPosition(st) /\ Tok(toks, st.i).type # PUNCTUATION

\* one iteration of the for loop, or the code after it
ParseIter(toks, st) ==
    IF st.i >= Len(toks) THEN EndStep(st)
    ELSE IF IsBracketStep(toks, st) THEN BracketStep(toks, st)
    ELSE IF IsKeyStep(toks, st) THEN KeyStep(toks, st)
    ELSE IF IsPunctuationStep(toks, st) THEN PunctuationStep(toks, st)
    ELSE ValueStep(toks, st)

ParseStart ==
    [i |-> 0, stacks |-> <<>>, currentContainer |-> 0, heap |-> <<>>,
     pc |-> "loop", result |-> Undefined, error |-> ""]

\* parse(tokens) run to its end
RECURSIVE ParseFrom(_, _)
ParseFrom(toks, st) == IF st.pc # "loop" THEN st ELSE ParseFrom(toks, ParseIter(toks, st))
parse(toks) == ParseFrom(toks, ParseStart)

-----------------------------------------------------------------------------
(* Token alphabet of the parser-level specification *)

LBrace == Token(BRACKET, <<"{">>)
RBrace == Token(BRACKET, <<"}">>)
LBracket == Token(BRACKET, <<"[">>)
RBracket == Token(BRACKET, <<"]">>)
Comma == Token(PUNCTUATION, <<",">>)
Colon == Token(PUNCTUATION, <<":">>)
StrA == Token(STRING_TOKEN, <<Quote, "a", Quote>>)
Num1 == NumberToken(<<"1">>, DECIMAL, FALSE, FALSE)
IdX == Token(IDENTIFIER, <<"x">>)
IdT == Token(IDENTIFIER, <<"t">>)

TokenAlphabet ==
    {LBrace, RBrace, LBracket, RBracket, Comma, Colon, StrA, Num1, IdX, IdT}

\* longest token array of the parser-level specification
MaxTokens == 4

-----------------------------------------------------------------------------
(* The state machine: one action per branch of parse()'s loop body *)

St ==
    [i |-> i, stacks |-> stacks, currentContainer |-> currentContainer, heap |-> heap,
     pc |-> pc, result |-> result, error |-> error]

Becomes(st) ==
    \E next \in {st} :
        /\ i' = next.i
        /\ stacks' = next.stacks
        /\ currentContainer' = next.currentContainer
        /\ heap' = next.heap
        /\ pc' = next.pc
        /\ result' = next.result
        /\ error' = next.error
        /\ UNCHANGED <<jsonString, cursor, tokens, legacy>>

InLoop == pc = "loop" /\ i < Len(tokens)

HandleBracketToken ==
    /\ InLoop
    /\ IsBracketStep(tokens, St)
    /\ Becomes(BracketStep(tokens, St))

HandleObjectKey ==
    /\ InLoop
    /\ IsKeyStep(tokens, St)
    /\ Becomes(KeyStep(tokens, St))

HandlePunctuationToken ==
    /\ InLoop
    /\ IsPunctuationStep(tokens, St)
    /\ Becomes(PunctuationStep(tokens, St))

ParseValue ==
    /\ InLoop
    /\ IsValueStep(tokens, St)
    /\ Becomes(ValueStep(tokens, St))

HandleUnclosedContainers ==
    /\ pc = "loop"
    /\ i >= Len(tokens)
    /\ Becomes(EndStep(St))

\* parse() called on a token array
InitParse(toks) ==
    /\ jsonString = Str(<<>>)
    /\ cursor = 0
    /\ tokens = toks
    /\ i = ParseStart.i
    /\ stacks = ParseStart.stacks
    /\ currentContainer = ParseStart.currentContainer
    /\ heap = ParseStart.heap
    /\ pc = ParseStart.pc
    /\ result = ParseStart.result
    /\ error = ParseStart.error
    /\ legacy = LegacyIdle

Init == \E toks \in SeqsUpTo(TokenAlphabet, MaxTokens) : InitParse(toks)

Next ==
    \/ HandleBracketToken
    \/ HandleObjectKey
    \/ HandlePunctuationToken
    \/ ParseValue
    \/ HandleUnclosedContainers

Spec == Init /\ [][Next]_vars

-----------------------------------------------------------------------------
(* Vocabulary of the properties *)

Token_i == Tok(tokens, i)
IsClosing(token) == token.type = BRACKET /\ token.value \in {<<"}">>, <<"]">>}
IsOpening(token) == token.type = BRACKET /\ token.value \in {<<"{">>, <<"[">>}
CurrentIs(type) == currentContainer # 0 /\ heap[currentContainer].type = type
Outcome(st) == <<st.pc, st.result>>
Entry(k, v) == [k |-> k, v |-> v]
IsEntryOf(h, id, k, v) == \E n \in 1..Len(h[id].ents) : h[id].ents[n] = Entry(k, v)

\* container id is part of the value of container root
RECURSIVE Reaches(_, _, _)
Reaches(h, root, id) ==
    \/ root = id
    \/ \E n \in 1..Len(h[root].els) :
           h[root].els[n].t = "ref" /\ Reaches(h, h[root].els[n].id, id)
    \/ \E n \in 1..Len(h[root].ents) :
           h[root].ents[n].v.t = "ref" /\ Reaches(h, h[root].ents[n].v.id, id)

-----------------------------------------------------------------------------
(* C2: when the tokens run out with containers still open, parse returns,
   without an error, the value of the bottom container of the stack; that
   value contains every container still on the stack; and a pending key of
   the current OBJECT has been given null. *)
C2_UnclosedReturnsWholeStack ==
    [][(pc = "loop" /\ i >= Len(tokens) /\ Len(stacks) > 0) =>
          /\ pc' = "returned"
          /\ result' = Materialize(heap', Ref(stacks[1]))
          /\ \A n \in 1..Len(stacks) : Reaches(heap', stacks[1], stacks[n])
          /\ (CurrentIs(OBJECT) /\ heap[currentContainer].hasKey =>
                 /\ IsEntryOf(heap', currentContainer, heap[currentContainer].key, Null)
                 /\ ~heap'[currentContainer].hasKey)]_vars

SwapClosing(token) ==
    IF token.value = <<"}">> THEN RBracket
    ELSE IF token.value = <<"]">> THEN RBrace
    ELSE token
SwapClosingAt(toks, n) == [toks EXCEPT ![n] = SwapClosing(toks[n])]

(* C3: a closing bracket closes the innermost container whatever its
   shape: writing the other closing symbol at any place where the stack is
   not empty changes neither the outcome nor the value of the parse. *)
C3_ClosingSymbolIrrelevant ==
    pc # "loop" =>
        \A n \in 1..Len(tokens) :
            IsClosing(tokens[n]) => Outcome(parse(SwapClosingAt(tokens, n))) = Outcome(St)

ClosesLastContainer == InLoop /\ IsClosing(Token_i) /\ Len(stacks) = 1

(* C4: the closing bracket that empties the stack makes parse return the
   popped container's value, which is what parse returns for the tokens up
   to that bracket alone; no step follows a return, so whatever follows the
   bracket is never visited and cannot raise an error. *)
C4_ReturnIgnoresSuffix ==
    [][/\ pc = "loop"
       /\ ClosesLastContainer =>
              /\ pc' = "returned"
              /\ result' = Materialize(heap, Ref(stacks[1]))
              /\ Outcome(parse(SubSeq(tokens, 1, i + 1))) = <<"returned", result'>>]_vars

\* a return by a closing bracket that leaves tokens unvisited, the next one
\* an unmatched closing bracket
C4_Witness ==
    /\ pc = "returned"
    /\ i + 1 < Len(tokens)
    /\ IsClosing(Token_i)
    /\ IsClosing(Tok(tokens, i + 1))

ColonWithoutValue ==
    /\ InLoop
    /\ Token_i = Colon
    /\ CurrentIs(OBJECT)
    /\ heap[currentContainer].hasKey
    /\ \/ i + 1 >= Len(tokens)
       \/ Tok(tokens, i + 1) \in {Comma, RBrace, RBracket}

(* C5: a colon processed in an OBJECT that holds a pending key, and that is
   the last token or is followed by a closing bracket or a comma, gives the
   pending key null at once and clears it. *)
C5_ColonWithoutValueGivesNull ==
    [][ColonWithoutValue =>
          /\ IsEntryOf(heap', currentContainer, heap[currentContainer].key, Null)
          /\ ~heap'[currentContainer].hasKey]_vars

-----------------------------------------------------------------------------
IsValueToken(token) == token.type \in {STRING_TOKEN, NUMBER, IDENTIFIER}

\* the index of the last token of the value that starts at tokens[i]
ValueEnd ==
    IF Token_i.type = IDENTIFIER /\ currentContainer # 0
    THEN IdentifierRunEnd(tokens, i + 1) - 1
    ELSE i

\* [ followed by numbers, strings and commas, closed or not
FlatArray(toks) ==
    /\ Len(toks) >= 1
    /\ toks[1] = LBracket
    /\ \A n \in 2..Len(toks) :
           \/ toks[n] \in {Comma, Num1, StrA}
           \/ n = Len(toks) /\ IsClosing(toks[n])

\* the length C6 states for a flat array: its values, plus its commas that do
\* not directly follow a value
ClaimedLength(toks) ==
    Cardinality({n \in 2..Len(toks) : toks[n] \in {Num1, StrA}})
    + Cardinality({n \in 2..Len(toks) : toks[n] = Comma /\ toks[n - 1] \notin {Num1, StrA}})

(* C6: with an ARRAY current, the comma directly after a value or after the
   closing bracket of a nested container is consumed with it and adds no
   element; every other comma appends exactly one null; so a flat array ends
   with as many elements as it has values and such other commas. *)
C6_ArrayCommas ==
    [][/\ (InLoop /\ Token_i = Comma /\ CurrentIs(ARRAY)) =>
              /\ heap'[currentContainer].els = Append(heap[currentContainer].els, Null)
              /\ i' = i + 1
       /\ (InLoop /\ IsValueStep(tokens, St) /\ CurrentIs(ARRAY) /\ pc' = "loop") =>
              /\ Len(heap'[currentContainer].els) = Len(heap[currentContainer].els) + 1
              /\ i' = IF NextIsComma(tokens, ValueEnd) THEN ValueEnd + 2 ELSE ValueEnd + 1
       /\ (InLoop /\ IsClosing(Token_i) /\ Len(stacks) >= 2
                  /\ heap[stacks[Len(stacks) - 1]].type = ARRAY) =>
              /\ currentContainer' = stacks[Len(stacks) - 1]
              /\ heap' = heap
              /\ i' = IF NextIsComma(tokens, i) THEN i + 2 ELSE i + 1
       /\ (pc' = "returned" /\ FlatArray(tokens)) =>
              /\ result'.t = ARRAY
              /\ Len(result'.els) = ClaimedLength(tokens)]_vars

\* [ 1 , , has been parsed: one comma consumed with the value, one null slot
C6_Witness ==
    /\ tokens = <<LBracket, Num1, Comma, Comma>>
    /\ pc = "returned"
    /\ Len(result.els) = 2
    /\ result.els[2] = Null

(* C7: with an OBJECT current that has no pending key, a comma is skipped:
   the step changes neither the stack, nor the current container, nor any
   container's entries or pending key, and raises nothing. *)
C7_CommaInKeyPositionSkipped ==
    [][(InLoop /\ InKeyPosition(St) /\ Token_i = Comma) =>
          /\ stacks' = stacks
          /\ currentContainer' = currentContainer
          /\ heap' = heap
          /\ pc' = "loop"
          /\ i' = i + 1]_vars

\* two consecutive commas were skipped in key position
C7_Witness ==
    /\ Len(tokens) >= 3
    /\ SubSeq(tokens, 1, 3) = <<LBrace, Comma, Comma>>
    /\ i = 3
    /\ pc = "loop"
    /\ InKeyPosition(St)
    /\ heap[1].ents = <<>>

-----------------------------------------------------------------------------
\* the values of tokens[from..to-1] with one space between neighbours
RECURSIVE SpaceSeparated(_, _, _)
SpaceSeparated(toks, from, to) ==
    IF from >= to THEN <<>>
    ELSE IF from + 1 = to THEN Tok(toks, from).value
    ELSE SpaceSeparated(toks, from, to - 1) \o <<" ">> \o Tok(toks, to - 1).value

\* tokens[i] is decoded as a value and starts a run of two or more identifiers
IdentifierRunAsValue ==
    /\ InLoop
    /\ IsValueStep(tokens, St)
    /\ Token_i.type = IDENTIFIER
    /\ i + 1 < Len(tokens)
    /\ Tok(tokens, i + 1).type = IDENTIFIER

\* the step stored or returned v as its one value
StepYields(v) ==
    IF currentContainer = 0 THEN pc' = "returned" /\ result' = v
    ELSE IF heap[currentContainer].type = ARRAY
    THEN heap'[currentContainer].els = Append(heap[currentContainer].els, v)
    ELSE /\ IsEntryOf(heap', currentContainer, heap[currentContainer].key, v)
         /\ ~heap'[currentContainer].hasKey

RunIsOneValue ==
    LET j == IdentifierRunEnd(tokens, i + 1)
    IN  /\ StepYields(Str(SpaceSeparated(tokens, i, j)))
        /\ pc' = "loop" => i' = IF j < Len(tokens) /\ Tok(tokens, j) = Comma THEN j + 1 ELSE j

(* C10 as stated: whenever the token decoded as a value is an IDENTIFIER
   followed by further IDENTIFIER tokens, the whole run becomes one
   space-joined string value and the parser resumes after the run. *)
C10_AnyRunIsJoined == [][IdentifierRunAsValue => RunIsOneValue]_vars

(* C10 amended: that holds when a container is current; with no container
   (top level) the first identifier alone is decoded and returned. *)
C10_RunJoinedInsideContainer ==
    [][IdentifierRunAsValue =>
          IF currentContainer # 0 THEN RunIsOneValue
          ELSE pc' = "returned" /\ result' = parseIdentifierValue(Token_i)]_vars

\* [ x t , has been parsed into the one element "x t"
C10_Witness ==
    /\ tokens = <<LBracket, IdX, IdT, Comma>>
    /\ i = 4
    /\ heap[1].els = <<Str(<<"x", " ", "t">>)>>

-----------------------------------------------------------------------------
(* Identifiers as values: the texts, listed by what they should decode to *)

TruthyTexts ==
    {<<"t">>, <<"t", "r">>, <<"t", "r", "u">>, <<"t", "r", "u", "e">>, <<"T">>,
     <<"T", "r", "u", "e">>, <<"T", "R", "U", "E">>, <<"t", "R", "u", "E">>}
FalsyTexts ==
    {<<"f">>, <<"f", "a">>, <<"f", "a", "l">>, <<"f", "a", "l", "s">>,
     <<"f", "a", "l", "s", "e">>, <<"F">>, <<"F", "a", "l", "s", "e">>,
     <<"F", "A", "L", "S", "E">>, <<"F", "a", "L", "s">>}
NullLikeTexts ==
    {<<"n">>, <<"n", "u">>, <<"n", "u", "l">>, <<"n", "u", "l", "l">>, <<"n", "o">>,
     <<"n", "o", "n">>, <<"n", "o", "n", "e">>, <<"n", "i", "l">>,
     <<"n", "i", "l", "l">>, <<"N">>, <<"N", "u", "l", "l">>, <<"N", "U", "L", "L">>,
     <<"N", "o", "n", "e">>, <<"N", "I", "L">>, <<"N", "o">>}
UndefinedLikeTexts ==
    {<<"u">>, <<"u", "n">>, <<"u", "n", "d">>, <<"u", "n", "d", "e">>,
     <<"u", "n", "d", "e", "f">>, <<"u", "n", "d", "e", "f", "i">>,
     <<"u", "n", "d", "e", "f", "i", "n">>,
     <<"u", "n", "d", "e", "f", "i", "n", "e", "d">>, <<"U">>,
     <<"U", "n", "d", "e", "f", "i", "n", "e", "d">>,
     <<"U", "N", "D", "E", "F", "I", "N", "E", "D">>, <<"U", "n", "d", "e", "f">>}
\* texts that belong to no alias set in any letter case
PlainTexts ==
    {<<"x">>, <<"y", "e", "s">>, <<"t", "r", "u", "e", "e">>,
     <<"n", "u", "l", "l", "l">>, <<"n", "o", "p", "e">>,
     <<"u", "n", "d", "e", "f", "i", "n", "e">>, <<"f", "a", "l", "e">>,
     <<"n", "a", "n">>, <<"N", "a", "N">>, <<"n", "i">>, <<"t", "t">>, <<"o", "n">>,
     <<"T", "R", "U", "T", "H">>}
IdentifierTexts ==
    TruthyTexts \cup FalsyTexts \cup NullLikeTexts \cup UndefinedLikeTexts \cup PlainTexts

\* what the token sequence has before and after the identifier
IdentifierFrames == {<<>>, <<LBracket>>, <<LBrace, StrA, Colon>>, <<LBrace, StrA>>}
IdentifierTails == {<<>>, <<Comma>>, <<RBracket>>, <<RBrace>>, <<Comma, Num1>>, <<Colon>>}

InitIdentifier ==
    \E text \in IdentifierTexts, frame \in IdentifierFrames, tail \in IdentifierTails :
        InitParse(frame \o <<Token(IDENTIFIER, text)>> \o tail)

SpecIdentifier == InitIdentifier /\ [][Next]_vars

ExpectedOfText(text) ==
    IF text \in TruthyTexts THEN Bool(TRUE)
    ELSE IF text \in FalsyTexts THEN Bool(FALSE)
    ELSE IF text \in NullLikeTexts THEN Null
    ELSE IF text \in UndefinedLikeTexts THEN Undefined
    ELSE Str(text)

\* tokens[i] is an IDENTIFIER decoded as a value on its own
SingleIdentifierAsValue ==
    /\ InLoop
    /\ IsValueStep(tokens, St)
    /\ Token_i.type = IDENTIFIER
    /\ ~(currentContainer # 0 /\ i + 1 < Len(tokens) /\ Tok(tokens, i + 1).type = IDENTIFIER)

(* C9: a single IDENTIFIER in value position decodes to true, false, null or
   the undefined marker when its text is, in any letter case, in the
   matching alias set, and to the string of its own text otherwise; the step
   raises no error; undefined and null are different values. *)
C9_IdentifierAliases ==
    [][SingleIdentifierAsValue =>
          /\ pc' # "thrown"
          /\ StepYields(ExpectedOfText(Token_i.value))]_vars

\* [ UNDEF has been parsed: the array holds the undefined marker
C9_Witness ==
    /\ tokens = <<LBracket, Token(IDENTIFIER, <<"U", "n", "d", "e", "f">>)>>
    /\ i = 2
    /\ heap[1].els = <<Undefined>>

-----------------------------------------------------------------------------
(* Objects written with or without their separators *)

SeparatorKeys == {StrA, IdX, Num1}
SeparatorValues == {<<StrA>>, <<Num1>>, <<IdT>>, <<LBracket, Num1, RBracket>>}
\* most key/value pairs of an object of the separator specification
MaxPairs == 2

\* one key/value pair and which of its separators are written: its colon,
\* and the comma between it and the pair before
PairChoices ==
    [key : SeparatorKeys, value : SeparatorValues, colon : BOOLEAN, comma : BOOLEAN]

PairTokens(pair, first) ==
    (IF first \/ ~pair.comma THEN <<>> ELSE <<Comma>>)
    \o <<pair.key>>
    \o (IF pair.colon THEN <<Colon>> ELSE <<>>)
    \o pair.value

RECURSIVE PairsTokens(_, _)
PairsTokens(pairs, first) ==
    IF pairs = <<>> THEN <<>>
    ELSE PairTokens(Head(pairs), first) \o PairsTokens(Tail(pairs), FALSE)

ObjectTokens(pairs, closed) ==
    <<LBrace>> \o PairsTokens(pairs, TRUE) \o (IF closed THEN <<RBrace>> ELSE <<>>)

InitSeparators ==
    \E n \in 1..MaxPairs :
        \E pairs \in [1..n -> PairChoices], closed \in BOOLEAN :
            /\ pairs[1].comma
            /\ InitParse(ObjectTokens(pairs, closed))

SpecSeparators == InitSeparators /\ [][Next]_vars

\* the key/value pairs of an object's tokens (the tokens after the brace,
\* separators left out), each written with its colon, commas between them
RECURSIVE WithSeparatorsFrom(_, _)
WithSeparatorsFrom(ts, first) ==
    IF ts = <<>> THEN <<>>
    ELSE IF Head(ts) = RBrace THEN <<RBrace>>
    ELSE LET n == IF ts[2] = LBracket THEN 3 ELSE 1
         IN  (IF first THEN <<>> ELSE <<Comma>>)
             \o <<ts[1], Colon>> \o SubSeq(ts, 2, n + 1)
             \o WithSeparatorsFrom(Drop(ts, n + 1), FALSE)

\* the object of toks with every colon and comma in place
WithSeparators(toks) ==
    <<LBrace>> \o WithSeparatorsFrom(SelectSeq(Tail(toks), LAMBDA t : t.type # PUNCTUATION), TRUE)

(* C8 as stated: an object decodes to the same value, without an error,
   whichever of its colons and commas are left out. *)
C8_SeparatorsOptional ==
    pc # "loop" =>
        /\ pc = "returned"
        /\ Outcome(St) = Outcome(parse(WithSeparators(tokens)))

\* an IDENTIFIER value directly followed by an IDENTIFIER key: in this
\* specification t is only ever a value and x only ever a key
IdentifierValueMeetsKey(toks) ==
    \E n \in 1..(Len(toks) - 1) : toks[n] = IdT /\ toks[n + 1] = IdX

(* C8 amended: that holds unless leaving out a comma puts an IDENTIFIER value
   directly before an IDENTIFIER key. *)
C8_SeparatorsOptionalUnlessMerged ==
    (pc # "loop" /\ ~IdentifierValueMeetsKey(tokens)) =>
        /\ pc = "returned"
        /\ Outcome(St) = Outcome(parse(WithSeparators(tokens)))

\* { x 1 "a" [ 1 ] } was decoded, every separator left out
C8_Witness ==
    /\ tokens = <<LBrace, IdX, Num1, StrA, LBracket, Num1, RBracket, RBrace>>
    /\ pc = "returned"
    /\ Len(result.ents) = 2

-----------------------------------------------------------------------------
(* tokenizer.ts.  A text is a sequence of characters; positions count from 0
   as in the source, and a position outside the text reads as undefined. *)

\* U+FF1A and U+FF0C, the fullwidth colon and comma
FullwidthColon == "U+FF1A"
FullwidthComma == "U+FF0C"
Apostrophe == "'"

NoChar == "undefined"
At(s, p) == IF p >= 0 /\ p < Len(s) THEN s[p + 1] ELSE NoChar
Min(a, b) == IF a < b THEN a ELSE b
\* s.slice(a, b) for 0 <= a
Slice(s, a, b) == SubSeq(s, a + 1, Min(b, Len(s)))

\* char <= ' '
BelowOrSpace == ControlChars \cup {" "}
\* U+00A0, no-break space: above ' ' and matched by \s, like the other
\* Unicode spaces it stands for
NoBreakSpace == "U+00A0"
\* \s
RegexSpace == {" ", "\t", "\n", "\f", "\r", NoBreakSpace}
\* /["{}[\],:<U+FF1A><U+FF0C>\s]/
IdentifierStop ==
    {Quote, "{", "}", "[", "]", ",", ":", FullwidthColon, FullwidthComma} \cup RegexSpace
\* /[\d.eE+-]/
DecimalRun == Digits \cup {".", "e", "E", "+", "-"}

\* the first position from p (0-based) on that is outside s or holds a character of S
RECURSIVE ScanTo(_, _, _)
ScanTo(s, p, S) == IF p < Len(s) /\ At(s, p) \notin S THEN ScanTo(s, p + 1, S) ELSE p
\* the first position from p (0-based) on that is outside s or holds no character of S
ScanOver(s, p, S) == RunEnd(s, p + 1, S) - 1

NoToken == [type |-> "null"]
TokenResult(token, newPos) ==
    [token |-> token, newPos |-> newPos, skippedBadEscape |-> FALSE]

\* mutant of parseIdentifierToken: a token is returned even for an empty run
parseIdentifierToken_AlwaysToken(text, startPos) ==
    LET pos == ScanTo(text, startPos, IdentifierStop)
    IN  TokenResult(Token(IDENTIFIER, Slice(text, startPos, pos)),
                    IF pos > startPos THEN pos ELSE pos + 1)

\* mutant of parseIdentifierToken: an empty run leaves the position where it is
parseIdentifierToken_EmptyRunStays(text, startPos) ==
    LET pos == ScanTo(text, startPos, IdentifierStop)
    IN  IF pos > startPos
        THEN TokenResult(Token(IDENTIFIER, Slice(text, startPos, pos)), pos)
        ELSE TokenResult(NoToken, pos)

parseIdentifierToken(text, startPos) ==
    LET pos == ScanTo(text, startPos, IdentifierStop)
    IN  IF pos > startPos
        THEN TokenResult(Token(IDENTIFIER, Slice(text, startPos, pos)), pos)
        ELSE TokenResult(NoToken, pos + 1)

\* mutant of parsePunctuationToken: the character is kept as written
parsePunctuationToken_AsWritten(char) == Token(PUNCTUATION, <<char>>)

parsePunctuationToken(char) ==
    Token(PUNCTUATION,
          IF char = FullwidthColon THEN <<":">>
          ELSE IF char = FullwidthComma THEN <<",">>
          ELSE <<char>>)

\* mutant of parseNumberToken: a dot starts a number whatever follows it
parseNumberToken_AnyDot(text, startPos) ==
    LET len == Len(text)
        isNegative == At(text, startPos) = "-"
        isPositive == ~isNegative /\ At(text, startPos) = "+"
        pos == IF isNegative \/ isPositive THEN startPos + 1 ELSE startPos
        firstChar == At(text, pos)
        nextChar == At(text, pos + 1)
        number(radix, end) ==
            TokenResult(NumberToken(Slice(text, pos, end), radix, isNegative, isPositive), end)
    IN  IF pos >= len THEN parseIdentifierToken(text, startPos)
        ELSE IF At(text, startPos) = "." \/ (pos > startPos /\ firstChar = ".")
        THEN number(DECIMAL, ScanOver(text, pos + 1, DecimalRun))
        ELSE IF firstChar \in Digits
        THEN IF firstChar = "0" /\ pos < len - 1
             THEN IF nextChar \in {"x", "X"}
                  THEN number(HEXADECIMAL, ScanOver(text, pos + 2, HexDigitSet))
                  ELSE IF nextChar \in {"o", "O"}
                  THEN number(OCTAL, ScanOver(text, pos + 2, RadixDigits(8)))
                  ELSE IF nextChar \in {"b", "B"}
                  THEN number(BINARY, ScanOver(text, pos + 2, RadixDigits(2)))
                  ELSE number(DECIMAL, ScanOver(text, pos + 1, DecimalRun))
             ELSE number(DECIMAL, ScanOver(text, pos, DecimalRun))
        ELSE parseIdentifierToken(text, startPos)

parseNumberToken(text, startPos) ==
    LET len == Len(text)
        isNegative == At(text, startPos) = "-"
        isPositive == ~isNegative /\ At(text, startPos) = "+"
        pos == IF isNegative \/ isPositive THEN startPos + 1 ELSE startPos
        firstChar == At(text, pos)
        nextChar == At(text, pos + 1)
        number(radix, end) ==
            TokenResult(NumberToken(Slice(text, pos, end), radix, isNegative, isPositive), end)
    IN  IF pos >= len THEN parseIdentifierToken(text, startPos)
        ELSE IF At(text, startPos) = "." \/ (pos > startPos /\ firstChar = ".")
        THEN IF firstChar = "." /\ pos + 1 < len /\ nextChar \in Digits
             THEN number(DECIMAL, ScanOver(text, pos + 1, DecimalRun))
             ELSE parseIdentifierToken(text, startPos)
        ELSE IF firstChar \in Digits
        THEN IF firstChar = "0" /\ pos < len - 1
             THEN IF nextChar \in {"x", "X"}
                  THEN number(HEXADECIMAL, ScanOver(text, pos + 2, HexDigitSet))
                  ELSE IF nextChar \in {"o", "O"}
                  THEN number(OCTAL, ScanOver(text, pos + 2, RadixDigits(8)))
                  ELSE IF nextChar \in {"b", "B"}
                  THEN number(BINARY, ScanOver(text, pos + 2, RadixDigits(2)))
                  ELSE number(DECIMAL, ScanOver(text, pos + 1, DecimalRun))
             ELSE number(DECIMAL, ScanOver(text, pos, DecimalRun))
        ELSE parseIdentifierToken(text, startPos)

\* /\\["']([,:])?$/.exec(beforeNewline): the index of the match, -1 for none
BadEscapeIndex(beforeNewline) ==
    LET n == Len(beforeNewline)
    IN  IF /\ n >= 3
           /\ beforeNewline[n] \in {",", ":"}
           /\ beforeNewline[n - 1] \in {Quote, Apostrophe}
           /\ beforeNewline[n - 2] = Backslash
        THEN n - 3
        ELSE IF /\ n >= 2
                /\ beforeNewline[n] \in {Quote, Apostrophe}
                /\ beforeNewline[n - 1] = Backslash
        THEN n - 2
        ELSE 0 - 1

\* the scanning loop of parseStringToken, from position pos
RECURSIVE ScanString(_, _, _)
ScanString(text, startPos, pos) ==
    LET quoteChar == At(text, startPos)
        c == At(text, pos)
    IN  IF pos >= Len(text)
        THEN [pos |-> pos, foundEarlyTermination |-> FALSE, index |-> 0]
        ELSE IF c = quoteChar
        THEN [pos |-> pos + 1, foundEarlyTermination |-> FALSE, index |-> 0]
        ELSE IF c = Backslash THEN ScanString(text, startPos, pos + 2)
        ELSE IF c \in {"\n", "\r"}
        THEN LET index == BadEscapeIndex(Slice(text, startPos + 1, pos))
             IN  IF index >= 0
                 THEN [pos |-> startPos + 1 + index, foundEarlyTermination |-> TRUE,
                       index |-> index]
                 ELSE ScanString(text, startPos, pos + 1)
        ELSE ScanString(text, startPos, pos + 1)

\* the text between single quotes, its unescaped double quotes escaped
EscapeDoubleQuotes(innerContent) ==
    Flatten([n \in 1..Len(innerContent) |->
                IF innerContent[n] = Quote /\ (n = 1 \/ innerContent[n - 1] # Backslash)
                THEN <<Backslash, Quote>>
                ELSE <<innerContent[n]>>])

parseStringToken(text, startPos) ==
    LET quoteChar == At(text, startPos)
        scan == ScanString(text, startPos, startPos + 1)
        sliced == Slice(text, startPos, scan.pos)
        tokenValue ==
            IF scan.foundEarlyTermination
            THEN <<quoteChar>> \o Slice(text, startPos + 1, startPos + 1 + scan.index)
                     \o <<quoteChar>>
            ELSE IF Last(sliced) = quoteChar THEN sliced
            ELSE Append(sliced, quoteChar)
        normalized ==
            IF quoteChar = Apostrophe
            THEN <<Quote>> \o EscapeDoubleQuotes(SubSeq(tokenValue, 2, Len(tokenValue) - 1))
                     \o <<Quote>>
            ELSE tokenValue
    IN  [token |-> Token(STRING_TOKEN, normalized), newPos |-> scan.pos,
         skippedBadEscape |-> scan.foundEarlyTermination]

CommentResult(isComment, newPos) == [isComment |-> isComment, newPos |-> newPos]

\* the loop of a multi-line comment, from position pos
RECURSIVE ScanComment(_, _)
ScanComment(text, pos) ==
    IF pos < Len(text) - 1
    THEN IF At(text, pos) = "*" /\ At(text, pos + 1) = "/" THEN pos + 2
         ELSE ScanComment(text, pos + 1)
    ELSE pos

skipComment(text, startPos) ==
    LET len == Len(text)
        nextChar == At(text, startPos + 1)
    IN  IF startPos + 1 >= len THEN CommentResult(FALSE, startPos + 1)
        ELSE IF nextChar = "/"
        THEN LET eol == ScanTo(text, startPos + 2, {"\n", "\r"})
                 pos == IF eol < len THEN eol + 1 ELSE eol
             IN  IF eol < len /\ pos < len /\ At(text, pos - 1) = "\r" /\ At(text, pos) = "\n"
                 THEN CommentResult(TRUE, pos + 1)
                 ELSE CommentResult(TRUE, pos)
        ELSE IF nextChar = "*"
        THEN LET pos == ScanComment(text, startPos + 2)
             IN  IF pos >= len - 1 /\ ~(At(text, pos - 1) = "*" /\ At(text, pos) = "/")
                 THEN CommentResult(TRUE, len)
                 ELSE CommentResult(TRUE, pos)
        ELSE CommentResult(FALSE, startPos)

\* mutant of SkipBadEscape: the , or : after the quote is left to the tokenizer
SkipBadEscape_KeepsSeparator(text, pos) ==
    IF /\ pos < Len(text)
       /\ At(text, pos) = Backslash
       /\ pos + 1 < Len(text)
       /\ At(text, pos + 1) \in {Quote, Apostrophe}
    THEN pos + 2
    ELSE pos

\* after a bad-escape termination: skip \" or \' and an optional , or :
SkipBadEscape(text, pos) ==
    IF /\ pos < Len(text)
       /\ At(text, pos) = Backslash
       /\ pos + 1 < Len(text)
       /\ At(text, pos + 1) \in {Quote, Apostrophe}
    THEN IF pos + 2 < Len(text) /\ At(text, pos + 2) \in {",", ":"} THEN pos + 3 ELSE pos + 2
    ELSE pos

\* one iteration of the loop of tokenize at position pos: the tokens it
\* pushes and the position it moves to
TokenizeIter(text, pos) ==
    LET char == At(text, pos)
        comment == skipComment(text, pos)
        pushed(r) == [push |-> IF r.token = NoToken THEN <<>> ELSE <<r.token>>,
                      newPos |-> r.newPos]
    IN  IF char \in BelowOrSpace THEN [push |-> <<>>, newPos |-> pos + 1]
        ELSE IF char = "/" /\ comment.isComment THEN [push |-> <<>>, newPos |-> comment.newPos]
        ELSE IF char \in {Quote, Apostrophe}
        THEN LET stringToken == parseStringToken(text, pos)
             IN  [push |-> <<stringToken.token>>,
                  newPos |-> IF stringToken.skippedBadEscape
                             THEN SkipBadEscape(text, stringToken.newPos)
                             ELSE stringToken.newPos]
        ELSE IF char \in {"{", "}", "[", "]"}
        THEN [push |-> <<Token(BRACKET, <<char>>)>>, newPos |-> pos + 1]
        ELSE IF char \in {",", ":", FullwidthColon, FullwidthComma}
        THEN [push |-> <<parsePunctuationToken(char)>>, newPos |-> pos + 1]
        ELSE IF char \in Digits \cup {"-", "+", "."}
        THEN [push |-> <<parseNumberToken(text, pos).token>>,
              newPos |-> parseNumberToken(text, pos).newPos]
        ELSE pushed(parseIdentifierToken(text, pos))

RECURSIVE TokenizeFrom(_, _, _)
TokenizeFrom(text, pos, toks) ==
    IF pos < Len(text)
    THEN LET step == TokenizeIter(text, pos)
         IN  TokenizeFrom(text, step.newPos, toks \o step.push)
    ELSE toks

tokenize(text) == TokenizeFrom(text, 0, <<>>)

-----------------------------------------------------------------------------
(* index.js: jaison *)

\* U+0060, the grave accent of a markdown fence
Backtick == "U+0060"
\* [\w+\-]
FenceLanguage ==
    Digits \cup {UpperCase[n] : n \in 1..26} \cup {LowerCase[n] : n \in 1..26}
        \cup {"_", "+", "-"}
IsFenceAt(s, p) == At(s, p) = Backtick /\ At(s, p + 1) = Backtick /\ At(s, p + 2) = Backtick

\* s.replace(/^\s*FENCE[\w+\-]*\s*\n?/, ""), FENCE three backticks
StripOpeningFence(s) ==
    LET p == ScanOver(s, 0, RegexSpace)
    IN  IF IsFenceAt(s, p)
        THEN Drop(s, ScanOver(s, ScanOver(s, p + 3, FenceLanguage), RegexSpace))
        ELSE s

\* the last position from p (1-based) down that holds no character of S, 0 for none
RECURSIVE RunStart(_, _, _)
RunStart(s, p, S) == IF p >= 1 /\ s[p] \in S THEN RunStart(s, p - 1, S) ELSE p

\* s.replace(/\n?\s*FENCE\s*$/i, "")
StripClosingFence(s) ==
    LET e == RunStart(s, Len(s), RegexSpace)
    IN  IF e >= 3 /\ IsFenceAt(s, e - 3)
        THEN SubSeq(s, 1, RunStart(s, e - 3, RegexSpace))
        ELSE s

InvalidInput == "Invalid input: jsonString must be a string"

\* jaison(input), run to its end
jaison(input) ==
    IF input.t # "string" THEN Threw(ParseStart, InvalidInput)
    ELSE parse(tokenize(StripClosingFence(StripOpeningFence(input.s))))

\* mutant of Jaison: an input that is not a string is taken for the empty text
Jaison_NoValidation ==
    /\ pc = "start"
    /\ pc' = "loop"
    /\ error' = error
    /\ tokens' = IF jsonString.t # "string" THEN <<>>
                 ELSE tokenize(StripClosingFence(StripOpeningFence(jsonString.s)))
    /\ UNCHANGED <<jsonString, cursor, i, stacks, currentContainer, heap, result, legacy>>

\* jaison() up to its call of parse
Jaison ==
    /\ pc = "start"
    /\ IF jsonString.t # "string"
       THEN /\ pc' = "thrown"
            /\ error' = InvalidInput
            /\ tokens' = tokens
       ELSE /\ pc' = "loop"
            /\ error' = error
            /\ tokens' = tokenize(StripClosingFence(StripOpeningFence(jsonString.s)))
    /\ UNCHANGED <<jsonString, cursor, i, stacks, currentContainer, heap, result, legacy>>

-----------------------------------------------------------------------------
(* Strict JSON documents, their texts and what JSON.parse returns for them *)

TopScalarTexts ==
    {<<"n", "u", "l", "l">>,
     <<"t", "r", "u", "e">>,
     <<"f", "a", "l", "s", "e">>,
     <<"0">>,
     <<"-", "0">>,
     <<"1">>,
     <<"-", "1">>,
     <<"1", "0">>,
     <<"1", ".", "5">>,
     <<"1", "e", "1">>,
     <<"2", "E", "-", "1">>,
     <<Quote, Quote>>,
     <<Quote, "a", Quote>>,
     <<Quote, Backslash, "n", Quote>>,
     <<Quote, Backslash, Quote, Quote>>,
     <<Quote, Backslash, "u", "0", "0", "4", "1", Quote>>,
     <<Quote, ",", Quote>>,
     <<Quote, "}", Quote>>,
     <<Quote, "/", "/", Quote>>,
     <<Quote, Apostrophe, Quote>>,
     <<Quote, "_", "_", "p", "r", "o", "t", "o", "_", "_", Quote>>}
MemberScalarTexts ==
    {<<"n", "u", "l", "l">>,
     <<"1">>,
     <<Quote, "a", Quote>>}
KeyTexts ==
    {<<Quote, "a", Quote>>,
     <<Quote, "1", Quote>>,
     <<Quote, "_", "_", "p", "r", "o", "t", "o", "_", "_", Quote>>}
\* most members of an outermost array or object
MaxMembers == 2

ScalarDoc(text) == [k |-> "scalar", text |-> text]
ArrayDoc(items) == [k |-> ARRAY, items |-> items]
ObjectDoc(pairs) == [k |-> OBJECT, pairs |-> pairs]
ArraysOf(V, n) == {ArrayDoc(items) : items \in SeqsUpTo(V, n)}
ObjectsOf(V, n) == {ObjectDoc(pairs) : pairs \in SeqsUpTo([key : KeyTexts, value : V], n)}

MemberScalars == {ScalarDoc(text) : text \in MemberScalarTexts}
\* the nested containers: [1] and {"a":1}
NestedDocs ==
    MemberScalars
        \cup {ArrayDoc(<<ScalarDoc(<<"1">>)>>),
              ObjectDoc(<<[key |-> <<Quote, "a", Quote>>, value |-> ScalarDoc(<<"1">>)]>>)}
Documents ==
    {ScalarDoc(text) : text \in TopScalarTexts}
        \cup ArraysOf(NestedDocs, MaxMembers) \cup ObjectsOf(NestedDocs, MaxMembers)

\* the text of a document, ws written wherever strict JSON allows whitespace
\* between the tokens of a container
RECURSIVE Render(_, _), RenderItems(_, _), RenderPairs(_, _)
Render(d, ws) ==
    IF d.k = "scalar" THEN d.text
    ELSE IF d.k = ARRAY THEN <<"[">> \o ws \o RenderItems(d.items, ws) \o <<"]">>
    ELSE <<"{">> \o ws \o RenderPairs(d.pairs, ws) \o <<"}">>
RenderItems(items, ws) ==
    IF items = <<>> THEN <<>>
    ELSE Render(Head(items), ws) \o ws
             \o (IF Len(items) > 1 THEN <<",">> \o ws ELSE <<>>)
             \o RenderItems(Tail(items), ws)
RenderPairs(pairs, ws) ==
    IF pairs = <<>> THEN <<>>
    ELSE Head(pairs).key \o ws \o <<":">> \o ws \o Render(Head(pairs).value, ws) \o ws
             \o (IF Len(pairs) > 1 THEN <<",">> \o ws ELSE <<>>)
             \o RenderPairs(Tail(pairs), ws)

\* JSON.parse of a scalar's text
JsonParseScalar(text) ==
    IF text = <<"n", "u", "l", "l">> THEN Null
    ELSE IF text = <<"t", "r", "u", "e">> THEN Bool(TRUE)
    ELSE IF text = <<"f", "a", "l", "s", "e">> THEN Bool(FALSE)
    ELSE IF text[1] = Quote THEN JsonParseString(text).v
    ELSE ParseFloat(text)

\* JSON.parse of a document's text: every member becomes an own property
RECURSIVE JsonParse(_), JsonParseEntries(_, _)
JsonParse(d) ==
    IF d.k = "scalar" THEN JsonParseScalar(d.text)
    ELSE IF d.k = ARRAY
    THEN [t |-> ARRAY, els |-> [n \in 1..Len(d.items) |-> JsonParse(d.items[n])]]
    ELSE [t |-> OBJECT, ents |-> JsonParseEntries(d.pairs, <<>>), proto |-> ObjectPrototype]
JsonParseEntries(pairs, ents) ==
    IF pairs = <<>> THEN ents
    ELSE JsonParseEntries(Tail(pairs),
             DefineOwn(ents, JsonParseString(Head(pairs).key).v.s, JsonParse(Head(pairs).value)))

Layouts == {<<>>, <<"\n", " ">>}
StrictTable == {[text |-> Render(d, ws), value |-> JsonParse(d)] : d \in Documents, ws \in Layouts}
StrictTexts == {e.text : e \in StrictTable}

\* texts cut off anywhere, as an interrupted stream leaves them
Prefixes(s) == {SubSeq(s, 1, n) : n \in 0..Len(s)}
TruncatedTexts == UNION {Prefixes(Render(d, <<>>)) : d \in Documents}
\* scalars inside a markdown code block
FencedTexts ==
    {<<Backtick, Backtick, Backtick, "j", "s", "o", "n", "\n">> \o text
         \o <<"\n", Backtick, Backtick, Backtick>> : text \in TopScalarTexts}
NonStrings ==
    {Null, Undefined, Num(FALSE, 1, 0), Bool(TRUE),
     [t |-> ARRAY, els |-> <<>>], [t |-> OBJECT, ents |-> <<>>, proto |-> ObjectPrototype]}
DecodeInputs ==
    {Str(text) : text \in StrictTexts \cup TruncatedTexts \cup FencedTexts} \cup NonStrings

\* jaison() called on an input
InitDecode ==
    \E input \in DecodeInputs :
        /\ jsonString = input
        /\ cursor = 0
        /\ tokens = <<>>
        /\ i = ParseStart.i
        /\ stacks = ParseStart.stacks
        /\ currentContainer = ParseStart.currentContainer
        /\ heap = ParseStart.heap
        /\ pc = "start"
        /\ result = ParseStart.result
        /\ error = ParseStart.error
        /\ legacy = LegacyIdle

NextDecode ==
    \/ Jaison
    \/ HandleBracketToken
    \/ HandleObjectKey
    \/ HandlePunctuationToken
    \/ ParseValue
    \/ HandleUnclosedContainers

SpecDecode == InitDecode /\ [][NextDecode]_vars

(* C1: when jaison ends on an input that is strict JSON, it has returned, not
   thrown, and its value is the value JSON.parse returns for that input: the
   same nesting, own keys in the same order, the same scalars. *)
C1_StrictJsonAsJsonParse ==
    pc \in {"returned", "thrown"} =>
        \A e \in StrictTable :
            jsonString = Str(e.text) => pc = "returned" /\ result = e.value

\* the key __proto__ is the only cause: without it the two decoders agree
HasProtoKey(text) ==
    \E n \in 1..(Len(text) - Len(ProtoKey) - 2) :
        SubSeq(text, n, n + Len(ProtoKey) + 2) = <<Quote>> \o ProtoKey \o <<Quote, ":">>
           \/ SubSeq(text, n, n + Len(ProtoKey) + 2) = <<Quote>> \o ProtoKey \o <<Quote, "\n">>
C1_AgreeWithoutProtoKey ==
    pc \in {"returned", "thrown"} =>
        \A e \in StrictTable :
            (jsonString = Str(e.text) /\ ~HasProtoKey(e.text)) =>
                pc = "returned" /\ result = e.value

-----------------------------------------------------------------------------
(* Object keys of every token kind *)

KeyTokens ==
    {StrA,
     Token(STRING_TOKEN, <<Quote, "a", Backslash, "n", Quote>>),
     Token(STRING_TOKEN, <<Quote, Backslash, "q", Quote>>),
     Token(IDENTIFIER, <<"t", "r", "u", "e">>),
     Token(IDENTIFIER, <<"n", "u", "l", "l">>),
     Token(IDENTIFIER, <<"x">>),
     NumberToken(<<"1">>, DECIMAL, FALSE, FALSE),
     NumberToken(<<"1">>, DECIMAL, TRUE, FALSE),
     NumberToken(<<"1">>, DECIMAL, FALSE, TRUE),
     NumberToken(<<"1", "e", "5">>, DECIMAL, FALSE, FALSE),
     NumberToken(<<"0", "x", "f", "f">>, HEXADECIMAL, FALSE, FALSE),
     NumberToken(<<"0", "x", "f", "f">>, HEXADECIMAL, TRUE, FALSE),
     NumberToken(<<"0", "b", "1">>, BINARY, FALSE, FALSE)}
KeyFrames ==
    {<<LBrace>>, <<LBracket, LBrace>>, <<LBrace, StrA, Colon, Num1, Comma>>,
     <<LBrace, StrA, LBrace>>}
KeyTails ==
    {<<>>, <<Colon>>, <<Colon, Num1>>, <<Num1>>, <<Colon, IdT, RBrace>>, <<RBrace>>,
     <<Comma>>, <<LBracket, RBracket>>, <<Colon, StrA, Comma, IdX, Colon, Num1>>}

InitKeys ==
    \E key \in KeyTokens, frame \in KeyFrames, tail \in KeyTails :
        InitParse(frame \o <<key>> \o tail)

SpecKeys == InitKeys /\ [][Next]_vars

\* the text of a token as a key: the sign and the literal text, or the
\* strictly decoded content of a STRING
KeyText(token) ==
    IF token.type = STRING_TOKEN THEN JsonParseString(token.value).v.s
    ELSE IF token.isNegative THEN <<"-">> \o token.value
    ELSE IF token.isPositive THEN <<"+">> \o token.value
    ELSE token.value

\* the loop is at a STRING (strictly decodable), NUMBER or IDENTIFIER token
\* while the current container is an OBJECT with no pending key
KeyTokenInKeyPosition ==
    /\ InLoop
    /\ IsKeyStep(tokens, St)
    /\ Token_i.type \in {STRING_TOKEN, NUMBER, IDENTIFIER}
    /\ (Token_i.type = STRING_TOKEN => JsonParseString(Token_i.value).ok)

(* C11: in key position a STRING token sets the pending key to its strictly
   decoded text and a NUMBER or IDENTIFIER token to its literal text, sign
   included, unconverted; the step adds no entry to any object. *)
C11_KeyIsLiteralText ==
    [][KeyTokenInKeyPosition =>
          /\ pc' = "loop"
          /\ i' = i + 1
          /\ heap'[currentContainer].hasKey
          /\ heap'[currentContainer].key = KeyText(Token_i)
          /\ heap'[currentContainer].ents = heap[currentContainer].ents
          /\ \A id \in 1..Len(heap) : id # currentContainer => heap'[id] = heap[id]
          /\ Len(heap') = Len(heap)
          /\ UNCHANGED <<stacks, currentContainer>>]_vars

\* { -0xff was read: the pending key is "-0xff" and the object is empty
C11_Witness ==
    /\ tokens = <<LBrace, NumberToken(<<"0", "x", "f", "f">>, HEXADECIMAL, TRUE, FALSE)>>
    /\ i = 2
    /\ heap[1].hasKey
    /\ heap[1].key = <<"-", "0", "x", "f", "f">>
    /\ heap[1].ents = <<>>

-----------------------------------------------------------------------------
(* tokenize() step by step, then parse() on its tokens, as jaison() runs
   them on a text *)

\* which branch of the loop body of tokenize takes the character at p
IsWhitespaceAt(text, p) == At(text, p) \in BelowOrSpace
IsCommentAt(text, p) == At(text, p) = "/" /\ skipComment(text, p).isComment
IsStringAt(text, p) == At(text, p) \in {Quote, Apostrophe}
IsBracketAt(text, p) == At(text, p) \in {"{", "}", "[", "]"}
IsPunctuationAt(text, p) == At(text, p) \in {",", ":", FullwidthColon, FullwidthComma}
IsNumberAt(text, p) == At(text, p) \in Digits \cup {"-", "+", "."}
IsIdentifierAt(text, p) ==
    /\ ~IsWhitespaceAt(text, p)
    /\ ~IsCommentAt(text, p)
    /\ ~IsStringAt(text, p)
    /\ ~IsBracketAt(text, p)
    /\ ~IsPunctuationAt(text, p)
    /\ ~IsNumberAt(text, p)

InTokenizeLoop == pc = "tokenize" /\ cursor < Len(jsonString.s)

\* the loop body of tokenize at the cursor
TokenizeStep ==
    /\ tokens' = tokens \o TokenizeIter(jsonString.s, cursor).push
    /\ cursor' = TokenizeIter(jsonString.s, cursor).newPos
    /\ UNCHANGED <<jsonString, i, stacks, currentContainer, heap, pc, result, error, legacy>>

SkipWhitespace == InTokenizeLoop /\ IsWhitespaceAt(jsonString.s, cursor) /\ TokenizeStep
SkipComment == InTokenizeLoop /\ IsCommentAt(jsonString.s, cursor) /\ TokenizeStep
ParseStringToken == InTokenizeLoop /\ IsStringAt(jsonString.s, cursor) /\ TokenizeStep
BracketToken == InTokenizeLoop /\ IsBracketAt(jsonString.s, cursor) /\ TokenizeStep
ParsePunctuationToken == InTokenizeLoop /\ IsPunctuationAt(jsonString.s, cursor) /\ TokenizeStep
ParseNumberToken == InTokenizeLoop /\ IsNumberAt(jsonString.s, cursor) /\ TokenizeStep
ParseIdentifierToken == InTokenizeLoop /\ IsIdentifierAt(jsonString.s, cursor) /\ TokenizeStep

\* tokenize returns; jaison calls parse on the tokens
TokenizeReturn ==
    /\ pc = "tokenize"
    /\ cursor >= Len(jsonString.s)
    /\ pc' = "loop"
    /\ UNCHANGED <<jsonString, cursor, tokens, i, stacks, currentContainer, heap, result, error, legacy>>

\* tokenize() called on a text
InitTokenize(text) ==
    /\ jsonString = Str(text)
    /\ cursor = 0
    /\ tokens = <<>>
    /\ i = ParseStart.i
    /\ stacks = ParseStart.stacks
    /\ currentContainer = ParseStart.currentContainer
    /\ heap = ParseStart.heap
    /\ pc = "tokenize"
    /\ result = ParseStart.result
    /\ error = ParseStart.error
    /\ legacy = LegacyIdle

NextTokenize ==
    \/ SkipWhitespace
    \/ SkipComment
    \/ ParseStringToken
    \/ BracketToken
    \/ ParsePunctuationToken
    \/ ParseNumberToken
    \/ ParseIdentifierToken
    \/ TokenizeReturn
    \/ HandleBracketToken
    \/ HandleObjectKey
    \/ HandlePunctuationToken
    \/ ParseValue
    \/ HandleUnclosedContainers

\* a text in which every branch of the tokenizer and of the parser is taken:
\* {x:"",1/**/ and then whatever follows
EveryBranchText == <<"{", "x", ":", Quote, Quote, ",", "1", "/", "*", "*", "/", " ">>

\* most characters of a text drawn from an alphabet
MaxChars == 5

-----------------------------------------------------------------------------
(* String literals: texts over quotes, backslash, newline, comma and a letter *)

StringAlphabet == {Quote, Apostrophe, Backslash, "a", "\n", ","}

InitStrings ==
    \E text \in SeqsUpTo(StringAlphabet, MaxChars)
                  \cup {EveryBranchText \o core : core \in SeqsUpTo(StringAlphabet, 2)} :
        InitTokenize(text)

SpecStrings == InitStrings /\ [][NextTokenize]_vars

\* the position of the first unescaped quoteChar from p on, -1 when there is none
RECURSIVE FindClosing(_, _, _)
FindClosing(text, quoteChar, p) ==
    IF p >= Len(text) THEN 0 - 1
    ELSE IF At(text, p) = quoteChar THEN p
    ELSE IF At(text, p) = Backslash THEN FindClosing(text, quoteChar, p + 2)
    ELSE FindClosing(text, quoteChar, p + 1)

\* a string opens at p, nothing closes it and no bad-escape recovery applies
UnterminatedStringAt(text, p) ==
    /\ IsStringAt(text, p)
    /\ FindClosing(text, At(text, p), p + 1) < 0
    /\ ~ScanString(text, p, p + 1).foundEarlyTermination

\* the double-quoted literal with the content of the string opened at p and
\* never closed
SynthesizedLiteral(text, p) ==
    <<Quote>>
        \o (IF At(text, p) = Apostrophe THEN EscapeDoubleQuotes(Drop(text, p + 1))
            ELSE Drop(text, p + 1))
        \o <<Quote>>

(* C12: a string that is never closed becomes one STRING token, its text up
   to the end of input followed by one synthesized closing delimiter; the
   token is a well-formed literal and the rest of the input is consumed. *)
C12_UnterminatedStringClosed ==
    [][(InTokenizeLoop /\ UnterminatedStringAt(jsonString.s, cursor)) =>
          /\ Len(tokens') = Len(tokens) + 1
          /\ Last(tokens').type = STRING_TOKEN
          /\ Last(tokens').value = SynthesizedLiteral(jsonString.s, cursor)
          /\ parseStringValue(Last(tokens')).ok
          /\ cursor' >= Len(jsonString.s)]_vars

\* a single-quoted literal opens at p and is closed before the end of input
SingleQuotedAt(text, p) ==
    /\ At(text, p) = Apostrophe
    /\ FindClosing(text, Apostrophe, p + 1) >= 0
    /\ ~ScanString(text, p, p + 1).foundEarlyTermination
SingleQuotedContent(text, p) == Slice(text, p + 1, FindClosing(text, Apostrophe, p + 1))

\* the content of a single-quoted literal as the content of a double-quoted
\* one: the double quotes escaped, the escaped single quotes bare, every
\* other escape kept
RECURSIVE AsDoubleQuoted(_)
AsDoubleQuoted(content) ==
    IF content = <<>> THEN <<>>
    ELSE IF content[1] = Backslash /\ Len(content) >= 2
    THEN (IF content[2] = Apostrophe THEN <<Apostrophe>> ELSE <<content[1], content[2]>>)
             \o AsDoubleQuoted(Drop(content, 2))
    ELSE IF content[1] = Quote THEN <<Backslash, Quote>> \o AsDoubleQuoted(Tail(content))
    ELSE <<content[1]>> \o AsDoubleQuoted(Tail(content))

DoubleQuoted(content) == Token(STRING_TOKEN, <<Quote>> \o AsDoubleQuoted(content) \o <<Quote>>)

(* C13: the token of a single-quoted literal is a double-quoted literal that
   decodes to the string the content denotes: double quotes are literal
   characters and escapes, the escaped single quote included, are interpreted
   without an error. *)
C13_SingleQuotedDecodes ==
    [][(/\ InTokenizeLoop
        /\ SingleQuotedAt(jsonString.s, cursor)
        /\ parseStringValue(DoubleQuoted(SingleQuotedContent(jsonString.s, cursor))).ok) =>
          /\ Len(tokens') = Len(tokens) + 1
          /\ Last(tokens').type = STRING_TOKEN
          /\ Last(tokens').value[1] = Quote
          /\ parseStringValue(Last(tokens')) =
                 parseStringValue(DoubleQuoted(SingleQuotedContent(jsonString.s, cursor)))]_vars

\* the string step at p ends in bad-escape recovery
RecoversAt(text, p) == IsStringAt(text, p) /\ ScanString(text, p, p + 1).foundEarlyTermination

BadEscapeEndings ==
    {<<Backslash, q>> \o sep : q \in {Quote, Apostrophe}, sep \in {<<>>, <<",">>, <<":">>}}

\* a string opens at p; plain content, then an ending of BadEscapeEndings,
\* then a raw newline or carriage return
PlainBadEscapeAt(text, p) ==
    /\ IsStringAt(text, p)
    /\ \E n \in (p + 1)..(Len(text) - 1), ending \in BadEscapeEndings :
           /\ At(text, n) \in {"\n", "\r"}
           /\ n - Len(ending) >= p + 1
           /\ Slice(text, n - Len(ending), n) = ending
           /\ \A m \in (p + 1)..(n - Len(ending) - 1) :
                  At(text, m) \notin {Backslash, Quote, Apostrophe, "\n", "\r"}

\* the STRING token of recovery at p when tokenizing resumes at n: the text
\* from p + 1 to n is the token's content and then an ending of BadEscapeEndings
IsRecoveredToken(text, p, n, token) ==
    \E ending \in BadEscapeEndings :
        LET content == Slice(text, p + 1, n - Len(ending))
        IN  /\ n - Len(ending) >= p + 1
            /\ Slice(text, n - Len(ending), n) = ending
            /\ token.type = STRING_TOKEN
            /\ token.value = <<Quote>>
                                 \o (IF At(text, p) = Apostrophe
                                     THEN EscapeDoubleQuotes(content) ELSE content)
                                 \o <<Quote>>

(* C14: a string whose scan meets a raw newline right after a backslash, a
   quote and an optional , or : is ended before that backslash: one STRING
   token with the text before the backslash as content, no token for the
   backslash, quote and separator, and the cursor on the newline. *)
C14_BadEscapeRecovery ==
    [][(InTokenizeLoop /\ IsStringAt(jsonString.s, cursor)) =>
          /\ PlainBadEscapeAt(jsonString.s, cursor) => RecoversAt(jsonString.s, cursor)
          /\ RecoversAt(jsonString.s, cursor) =>
                 /\ Len(tokens') = Len(tokens) + 1
                 /\ At(jsonString.s, cursor') \in {"\n", "\r"}
                 /\ IsRecoveredToken(jsonString.s, cursor, cursor', Last(tokens'))]_vars

\* "a\" and a newline: the token "a" was pushed and the cursor is on the newline
C14_Witness ==
    /\ jsonString = Str(<<Quote, "a", Backslash, Quote, "\n">>)
    /\ cursor = 4
    /\ tokens = <<StrA>>


-----------------------------------------------------------------------------
(* Comments *)

CommentAlphabet == {"/", "*", "\n", "\r", "1", " "}

InitComments ==
    \E text \in SeqsUpTo(CommentAlphabet, MaxChars)
                  \cup {EveryBranchText \o core : core \in SeqsUpTo(CommentAlphabet, 2)} :
        InitTokenize(text)

SpecComments == InitComments /\ [][NextTokenize]_vars

\* // or /* at p
CommentAt(text, p) == At(text, p) = "/" /\ At(text, p + 1) \in {"/", "*"}

\* the position of the first * followed by / from p on, Len(text) when there is none
RECURSIVE FindStarSlash(_, _)
FindStarSlash(text, p) ==
    IF p + 1 >= Len(text) THEN Len(text)
    ELSE IF At(text, p) = "*" /\ At(text, p + 1) = "/" THEN p
    ELSE FindStarSlash(text, p + 1)

UnterminatedCommentAt(text, p) ==
    /\ CommentAt(text, p)
    /\ At(text, p + 1) = "*"
    /\ FindStarSlash(text, p + 2) = Len(text)

\* the first position after the comment at p: the line end of a // comment,
\* the position after the closing */ of a /* comment, the end of the text
\* for an unterminated one
CommentEnd(text, p) ==
    IF At(text, p + 1) = "/" THEN ScanTo(text, p + 2, {"\n", "\r"})
    ELSE Min(FindStarSlash(text, p + 2) + 2, Len(text))

\* the text with the comment at p replaced by a single space
WithoutCommentAt(text, p) ==
    Slice(text, 0, p) \o <<" ">> \o Slice(text, CommentEnd(text, p), Len(text))

(* C15: a comment at the position where the tokenizer starts a new token
   pushes no token, the whole text has the tokens of the text with that
   comment replaced by one space, and an unterminated block comment takes
   the cursor to the end of the text. *)
C15_CommentIsOneSpace ==
    [][(InTokenizeLoop /\ CommentAt(jsonString.s, cursor)) =>
          /\ tokens' = tokens
          /\ tokenize(jsonString.s) = tokenize(WithoutCommentAt(jsonString.s, cursor))
          /\ UnterminatedCommentAt(jsonString.s, cursor) => cursor' = Len(jsonString.s)]_vars


-----------------------------------------------------------------------------
(* Chinese punctuation *)

PunctuationAlphabet == {FullwidthColon, FullwidthComma, Quote, Backslash, "a", "\n"}

InitPunctuation ==
    \E text \in SeqsUpTo(PunctuationAlphabet, MaxChars)
                  \cup {frame \o core : frame \in {EveryBranchText, <<"1">>, <<"-">>},
                                        core \in SeqsUpTo(PunctuationAlphabet, 2)} :
        InitTokenize(text)

SpecPunctuation == InitPunctuation /\ [][NextTokenize]_vars

AsciiOf(char) ==
    IF char = FullwidthColon THEN ":" ELSE IF char = FullwidthComma THEN "," ELSE char

\* text with the Chinese colons and commas of positions a .. b - 1 replaced
AsciiBetween(text, a, b) ==
    [n \in 1..Len(text) |-> IF a < n /\ n <= b THEN AsciiOf(text[n]) ELSE text[n]]

\* text with every Chinese colon and comma replaced that is not in the part
\* of the text a string step consumes, tokenizing from pos
RECURSIVE AsciiOutsideStringsFrom(_, _)
AsciiOutsideStringsFrom(text, pos) ==
    IF pos >= Len(text) THEN text
    ELSE LET newPos == TokenizeIter(text, pos).newPos
         IN  IF IsStringAt(text, pos)
             THEN AsciiOutsideStringsFrom(text, newPos)
             ELSE AsciiOutsideStringsFrom(AsciiBetween(text, pos, newPos), newPos)

AsciiOutsideStrings(text) == AsciiOutsideStringsFrom(text, 0)

(* C16: a Chinese colon or comma where a token starts pushes the
   PUNCTUATION token : or , and the text has the tokens of the text with
   the Chinese colons and commas outside strings replaced by : and , ; a
   string step that finds its closing quote pushes the literal as written,
   Chinese colons and commas included. *)
C16_ChinesePunctuation ==
    [][InTokenizeLoop =>
          /\ At(jsonString.s, cursor) \in {FullwidthColon, FullwidthComma} =>
                 /\ tokens' = Append(tokens, Token(PUNCTUATION, <<AsciiOf(At(jsonString.s, cursor))>>))
                 /\ cursor' = cursor + 1
                 /\ tokenize(jsonString.s) = tokenize(AsciiOutsideStrings(jsonString.s))
          /\ (At(jsonString.s, cursor) = Quote /\ FindClosing(jsonString.s, Quote, cursor + 1) >= 0
              /\ ~RecoversAt(jsonString.s, cursor)) =>
                 /\ cursor' = FindClosing(jsonString.s, Quote, cursor + 1) + 1
                 /\ tokens' = Append(tokens, Token(STRING_TOKEN, Slice(jsonString.s, cursor, cursor')))]_vars

\* "<U+FF0C>"<U+FF0C> : the string keeps its Chinese comma, the one after it became ,
C16_Witness ==
    /\ jsonString = Str(<<Quote, FullwidthComma, Quote, FullwidthComma>>)
    /\ cursor = 4
    /\ tokens = <<Token(STRING_TOKEN, <<Quote, FullwidthComma, Quote>>), Token(PUNCTUATION, <<",">>)>>


-----------------------------------------------------------------------------
(* Hexadecimal, octal and binary numbers *)

MaxDigits == 3

RadixSigns == {<<>>, <<"-">>, <<"+">>}
RadixPrefixes == {"x", "X", "o", "O", "b", "B"}
RadixBodyAlphabet == {"0", "1", "7", "9", "f", "g"}

InitRadix ==
    \E text \in {sign \o <<"0", prefix>> \o body :
                     sign \in RadixSigns, prefix \in RadixPrefixes,
                     body \in SeqsUpTo(RadixBodyAlphabet, MaxDigits)}
                  \cup {EveryBranchText \o <<"0", prefix>> \o body :
                            prefix \in RadixPrefixes, body \in SeqsUpTo(RadixBodyAlphabet, 1)} :
        InitTokenize(text)

SpecRadix == InitRadix /\ [][NextTokenize]_vars

RadixOfPrefix(char) ==
    IF char \in {"x", "X"} THEN 16 ELSE IF char \in {"o", "O"} THEN 8 ELSE 2

SignLength(text, p) == IF At(text, p) \in {"-", "+"} THEN 1 ELSE 0

\* an optional sign, 0, a radix prefix and at least one digit of the radix at p
RadixLiteralAt(text, p) ==
    LET q == p + SignLength(text, p)
    IN  /\ At(text, q) = "0"
        /\ At(text, q + 1) \in RadixPrefixes
        /\ At(text, q + 2) \in RadixDigits(RadixOfPrefix(At(text, q + 1)))

\* the digits of the radix literal at p: the longest run of digits of its class
RadixLiteralDigits(text, p) ==
    LET q == p + SignLength(text, p)
    IN  Slice(text, q + 2,
              ScanOver(text, q + 2, RadixDigits(RadixOfPrefix(At(text, q + 1)))))

(* C17: a literal 0x, 0o or 0b (either case) with at least one digit of its
   class, with or without a sign, becomes one NUMBER token of radix 16, 8 or
   2 holding 0, the prefix and exactly the digits of the class; the token
   decodes to the integer the digits denote in the radix, negated under a
   minus sign and unchanged under a plus sign or none. *)
C17_RadixLiteralDecodes ==
    [][(InTokenizeLoop /\ RadixLiteralAt(jsonString.s, cursor)) =>
          LET text == jsonString.s
              q == cursor + SignLength(text, cursor)
              radix == RadixOfPrefix(At(text, q + 1))
              digits == RadixLiteralDigits(text, cursor)
              token == Last(tokens')
          IN  /\ Len(tokens') = Len(tokens) + 1
              /\ token.type = NUMBER
              /\ token.radix = radix
              /\ token.value = <<"0", At(text, q + 1)>> \o digits
              /\ token.isNegative = (At(text, cursor) = "-")
              /\ token.isPositive = (At(text, cursor) = "+")
              /\ cursor' = q + 2 + Len(digits)
              /\ parseNumberValue(token) =
                     Normalize(At(text, cursor) = "-", DigitsValue(digits, radix), 0)]_vars

\* -0o17 was tokenized and decoded to -15
C17_Witness ==
    /\ jsonString = Str(<<"-", "0", "o", "1", "7">>)
    /\ tokens = <<NumberToken(<<"0", "o", "1", "7">>, OCTAL, TRUE, FALSE)>>
    /\ pc = "returned"
    /\ result = Num(TRUE, 15, 0)


-----------------------------------------------------------------------------
(* Decimal numbers, signs and dots *)

DecimalAlphabet == {"-", "+", ".", "1", "e", ","}

InitDecimals ==
    \E text \in SeqsUpTo(DecimalAlphabet, MaxChars)
                  \cup {EveryBranchText \o core : core \in SeqsUpTo(DecimalAlphabet, 2)}
                  \cup {<<"0", prefix>> : prefix \in RadixPrefixes} :
        InitTokenize(text)

SpecDecimals == InitDecimals /\ [][NextTokenize]_vars

\* s is digits, an optional dot and digits, an optional exponent, with at
\* least one digit before the exponent and one in it
IsDecimalLiteral(s) ==
    LET p1 == RunEnd(s, 1, Digits)
        p2 == IF p1 <= Len(s) /\ s[p1] = "." THEN RunEnd(s, p1 + 1, Digits) ELSE p1
        mantissaDigits == (p1 - 1) + (IF p2 > p1 THEN p2 - p1 - 1 ELSE 0)
        p3 == IF p2 + 1 <= Len(s) /\ s[p2 + 1] \in {"+", "-"} THEN p2 + 2 ELSE p2 + 1
    IN  /\ mantissaDigits > 0
        /\ \/ p2 = Len(s) + 1
           \/ /\ s[p2] \in {"e", "E"}
              /\ RunEnd(s, p3, Digits) = Len(s) + 1
              /\ p3 <= Len(s)

\* the text of a NUMBER token is a number of the token's radix
ParsesAsNumber(token) ==
    IF token.radix = DECIMAL THEN IsDecimalLiteral(token.value)
    ELSE /\ Len(token.value) > 2
         /\ \A n \in 3..Len(token.value) : token.value[n] \in RadixDigits(token.radix)

(* C18: a text that is one NUMBER token whose text is not a number of its
   radix (0x, 1.1.1, 1e) is not decoded to a value: the parse ends with an
   error. *)
C18_MalformedNumberRejected ==
    (/\ pc \in {"returned", "thrown"}
     /\ Len(tokens) = 1
     /\ tokens[1].type = NUMBER
     /\ ~ParsesAsNumber(tokens[1])) => pc = "thrown"


\* a digit follows the sign or dot at p, for a sign possibly after one dot
DigitFollows(text, p) ==
    \/ At(text, p + 1) \in Digits
    \/ At(text, p) \in {"-", "+"} /\ At(text, p + 1) = "." /\ At(text, p + 2) \in Digits

(* C19: where a token starts with - + or . the step pushes one token; with
   no digit after the sign or dot (for a sign, after the sign and one dot)
   it is the IDENTIFIER made of the run of characters from the sign or dot
   up to the next delimiter, and it is a NUMBER only when a digit follows. *)
C19_BareSignIsIdentifier ==
    [][(InTokenizeLoop /\ At(jsonString.s, cursor) \in {"-", "+", "."}) =>
          /\ Len(tokens') = Len(tokens) + 1
          /\ Last(tokens').type = NUMBER <=> DigitFollows(jsonString.s, cursor)
          /\ ~DigitFollows(jsonString.s, cursor) =>
                 /\ cursor' = ScanTo(jsonString.s, cursor, IdentifierStop)
                 /\ Last(tokens') = Token(IDENTIFIER, Slice(jsonString.s, cursor, cursor'))]_vars

\* -.e : the sign is followed by a dot and no digit, the run is one IDENTIFIER
C19_Witness ==
    /\ jsonString = Str(<<"-", ".", "e", ",">>)
    /\ cursor = 3
    /\ tokens = <<Token(IDENTIFIER, <<"-", ".", "e">>)>>


-----------------------------------------------------------------------------
(* Unmatched brackets *)

EmptyOf(token) ==
    IF token.value = <<"{">>
    THEN [t |-> OBJECT, ents |-> <<>>, proto |-> ObjectPrototype]
    ELSE [t |-> ARRAY, els |-> <<>>]

(* C20: a closing bracket reached with an empty container stack ends the
   parse with an error and without a value; an opening bracket that is the
   only token ends the parse by returning the empty object or array. *)
C20_UnmatchedClosingThrows ==
    [][/\ (InLoop /\ IsClosing(Token_i) /\ stacks = <<>>) =>
              /\ pc' = "thrown"
              /\ error' = IF Token_i.value = <<"}">> THEN "Unmatched closing brace"
                                                     ELSE "Unmatched closing bracket"
              /\ result' = Undefined
       /\ (pc = "loop" /\ Len(tokens) = 1 /\ IsOpening(tokens[1]) /\ pc' # "loop") =>
              /\ pc' = "returned"
              /\ result' = EmptyOf(tokens[1])]_vars

\* } 1 : the closing brace found no container, the value after it was not read
C20_Witness ==
    /\ tokens = <<RBrace, Num1>>
    /\ pc = "thrown"
    /\ error = "Unmatched closing brace"
    /\ result = Undefined


-----------------------------------------------------------------------------
(* Structural errors of punctuation *)

(* C21: a comma or colon reached with an empty container stack ends the
   parse with the error of punctuation outside a container, and without a
   value. *)
C21_PunctuationOutsideThrows ==
    [][(InLoop /\ Token_i.type = PUNCTUATION /\ stacks = <<>>) =>
          /\ pc' = "thrown"
          /\ error' = "Unexpected punctuation outside of object or array context"
          /\ result' = Undefined]_vars

\* : 1 : the colon found no container, the value after it was not read
C21_Witness ==
    /\ tokens = <<Colon, Num1>>
    /\ pc = "thrown"
    /\ error = "Unexpected punctuation outside of object or array context"
    /\ result = Undefined

(* C22: with an OBJECT current that has no pending key, a colon ends the
   parse with the error of an unexpected token in key position; no value is
   returned and no container changes. *)
C22_ColonInKeyPositionThrows ==
    [][(InLoop /\ InKeyPosition(St) /\ Token_i = Colon) =>
          /\ pc' = "thrown"
          /\ error' = "Unexpected token when expecting a key in an object"
          /\ result' = Undefined
          /\ heap' = heap]_vars

\* { "a" 1 : : the entry a was built, then the colon met the key position
C22_Witness ==
    /\ tokens = <<LBrace, StrA, Num1, Colon>>
    /\ pc = "thrown"
    /\ error = "Unexpected token when expecting a key in an object"
    /\ result = Undefined
    /\ Len(heap[1].ents) = 1


-----------------------------------------------------------------------------
(* Strings that fail strict decoding *)

\* "\q" : an unrecognized escape letter
BadEscapeString == Token(STRING_TOKEN, <<Quote, Backslash, "q", Quote>>)
\* "\u00" : an incomplete unicode escape
BadUnicodeString == Token(STRING_TOKEN, <<Quote, Backslash, "u", "0", "0", Quote>>)
\* "A" : a complete one
GoodUnicodeString == Token(STRING_TOKEN, <<Quote, Backslash, "u", "0", "0", "4", "1", Quote>>)

BadStrings == {BadEscapeString, BadUnicodeString}

StringFrames ==
    {<<>>, <<LBracket>>, <<LBracket, Num1, Comma>>, <<LBrace>>, <<LBrace, StrA, Colon>>,
     <<LBrace, StrA, Colon, Num1, Comma>>, <<LBracket, LBrace, StrA, Colon>>,
     <<LBrace, StrA, LBracket, IdX, IdT>>}

InitBadStrings ==
    \E string \in BadStrings \cup {GoodUnicodeString, StrA},
       frame \in StringFrames, tail \in KeyTails :
        InitParse(frame \o <<string>> \o tail)

SpecBadStrings == InitBadStrings /\ [][Next]_vars

(* C23: a STRING token with an unrecognized escape letter or an incomplete
   unicode escape that the loop reaches, in key or in value position, ends
   the parse with an error and without a value, whatever was built before. *)
C23_BadStringThrows ==
    [][(InLoop /\ Token_i \in BadStrings) =>
          /\ pc' = "thrown"
          /\ error' = "SyntaxError"
          /\ result' = Undefined]_vars

\* [ 1 , "\u00" : the array held 1 when the string failed to decode
C23_Witness ==
    /\ Len(tokens) >= 4
    /\ SubSeq(tokens, 1, 4) = <<LBracket, Num1, Comma, BadUnicodeString>>
    /\ pc = "thrown"
    /\ error = "SyntaxError"
    /\ heap[1].els = <<Num(FALSE, 1, 0)>>
    /\ result = Undefined


-----------------------------------------------------------------------------
(* A scalar at top level *)

\* what the four scalar tokens of the alphabet denote
ScalarDenoted(token) ==
    CASE token = StrA -> Str(<<"a">>)
      [] token = Num1 -> Num(FALSE, 1, 0)
      [] token = IdX -> Str(<<"x">>)
      [] token = IdT -> Bool(TRUE)

(* C24: when the first token is a STRING, NUMBER or IDENTIFIER the first
   step of the loop returns the value that token denotes, whatever tokens
   follow it: they are never read and raise nothing. *)
C24_TopLevelScalarReturns ==
    [][(InLoop /\ i = 0 /\ Token_i.type \in {STRING_TOKEN, NUMBER, IDENTIFIER}) =>
          /\ pc' = "returned"
          /\ result' = ScalarDenoted(Token_i)
          /\ error' = ""
          /\ heap' = <<>>]_vars

\* 1 } : x : the parse returned 1; the tokens after it would each raise an error
C24_Witness ==
    /\ tokens = <<Num1, RBrace, Colon, IdX>>
    /\ pc = "returned"
    /\ result = Num(FALSE, 1, 0)
    /\ i = 0


-----------------------------------------------------------------------------
(* Inputs without tokens *)

BlankAlphabet == {" ", "\n", "/", "*", "1", Backtick}

InitBlank ==
    \E text \in SeqsUpTo(BlankAlphabet, MaxChars)
                  \cup {EveryBranchText \o core : core \in SeqsUpTo(BlankAlphabet, 1)} :
        /\ jsonString = Str(text)
        /\ cursor = 0
        /\ tokens = <<>>
        /\ i = ParseStart.i
        /\ stacks = ParseStart.stacks
        /\ currentContainer = ParseStart.currentContainer
        /\ heap = ParseStart.heap
        /\ pc = "start"
        /\ result = ParseStart.result
        /\ error = ParseStart.error
        /\ legacy = LegacyIdle

SpecBlank == InitBlank /\ [][NextDecode]_vars

(* C25: when the input has no tokens the parse returns the undefined marker
   and raises nothing; and the end of the tokens is reached with an empty
   stack only when there is no token at all. *)
C25_NoTokensIsUndefined ==
    [][/\ (pc = "loop" /\ tokens = <<>>) =>
              /\ pc' = "returned"
              /\ result' = Undefined
              /\ error' = ""
       /\ (pc = "loop" /\ i >= Len(tokens) /\ stacks = <<>>) => tokens = <<>>]_vars

\* a space, the comment //1 and its line end: no token, the undefined marker
C25_Witness ==
    /\ jsonString = Str(<<" ", "/", "/", "1", "\n">>)
    /\ tokens = <<>>
    /\ pc = "returned"
    /\ result = Undefined


-----------------------------------------------------------------------------
(* Serializing a value as strict JSON (JSON.stringify) and decoding it again *)

DigitChars == <<"0", "1", "2", "3", "4", "5", "6", "7", "8", "9">>

\* the decimal digits of a natural number
RECURSIVE NatDigits(_)
NatDigits(n) ==
    IF n < 10 THEN <<DigitChars[n + 1]>> ELSE Append(NatDigits(n \div 10), DigitChars[(n % 10) + 1])

Zeros(n) == [k \in 1..n |-> "0"]

\* Number::toString of a finite number (-1)^neg * m * 10^e
NumberToString(v) ==
    IF v.m = 0 THEN <<"0">>
    ELSE LET digits == NatDigits(v.m)
             k == Len(digits)
             n == k + v.e
             sign == IF v.neg THEN <<"-">> ELSE <<>>
             exponent == IF n - 1 < 0 THEN <<"e", "-">> \o NatDigits(1 - n)
                         ELSE <<"e", "+">> \o NatDigits(n - 1)
         IN  sign \o
             (IF k <= n /\ n <= 21 THEN digits \o Zeros(n - k)
              ELSE IF 0 < n /\ n <= 21
              THEN SubSeq(digits, 1, n) \o <<".">> \o SubSeq(digits, n + 1, k)
              ELSE IF 0 - 6 < n /\ n <= 0 THEN <<"0", ".">> \o Zeros(0 - n) \o digits
              ELSE IF k = 1 THEN digits \o exponent
              ELSE <<digits[1], ".">> \o SubSeq(digits, 2, k) \o exponent)

\* QuoteJSONString: the escapes JSON.stringify writes
QuoteChar(c) ==
    IF c = Quote THEN <<Backslash, Quote>>
    ELSE IF c = Backslash THEN <<Backslash, Backslash>>
    ELSE IF c = "\n" THEN <<Backslash, "n">>
    ELSE IF c = "\r" THEN <<Backslash, "r">>
    ELSE IF c = "\t" THEN <<Backslash, "t">>
    ELSE IF c = "\f" THEN <<Backslash, "f">>
    ELSE IF c \in ControlChars THEN EscapeControl(c)
    ELSE <<c>>

QuoteJSONString(s) == <<Quote>> \o Flatten([n \in 1..Len(s) |-> QuoteChar(s[n])]) \o <<Quote>>

\* JSON.stringify serializes neither undefined nor a function
IsUndefined(v) == v.t = "undefined"

\* JSON.stringify(v) for a defined v: NaN and an undefined element are
\* written null, an entry whose value is undefined is left out
RECURSIVE SerializeJSON(_), SerializeElements(_), SerializeEntries(_, _)
SerializeJSON(v) ==
    IF v.t = "null" THEN <<"n", "u", "l", "l">>
    ELSE IF v.t = "boolean"
    THEN (IF v.b THEN <<"t", "r", "u", "e">> ELSE <<"f", "a", "l", "s", "e">>)
    ELSE IF v.t = "number"
    THEN (IF v.nan THEN <<"n", "u", "l", "l">> ELSE NumberToString(v))
    ELSE IF v.t = "string" THEN QuoteJSONString(v.s)
    ELSE IF v.t = ARRAY THEN <<"[">> \o SerializeElements(v.els) \o <<"]">>
    ELSE <<"{">> \o SerializeEntries(v.ents, TRUE) \o <<"}">>
SerializeElements(els) ==
    IF els = <<>> THEN <<>>
    ELSE (IF IsUndefined(Head(els)) THEN <<"n", "u", "l", "l">> ELSE SerializeJSON(Head(els)))
             \o (IF Len(els) > 1 THEN <<",">> ELSE <<>>)
             \o SerializeElements(Tail(els))
SerializeEntries(ents, first) ==
    IF ents = <<>> THEN <<>>
    ELSE IF IsUndefined(Head(ents).v) THEN SerializeEntries(Tail(ents), first)
    ELSE (IF first THEN <<>> ELSE <<",">>)
             \o QuoteJSONString(Head(ents).k) \o <<":">> \o SerializeJSON(Head(ents).v)
             \o SerializeEntries(Tail(ents), FALSE)

\* JSON.stringify(v): undefined for undefined, else the text as a string
JsonStringify(v) == IF IsUndefined(v) THEN Undefined ELSE Str(SerializeJSON(v))


\* texts only a lenient decoder accepts
LenientTexts ==
    {<<"u", "n", "d", "e", "f", "i", "n", "e", "d">>,
     <<"[", "u", "n", "d", "e", "f">>,
     <<"{", "a", ":", "u", "n", "d", "e", "f", ",", "b", ":", "1", "}">>,
     <<"0", "x">>,
     <<"[", "0", "b", "]">>,
     <<"[", "-", "0", "]">>,
     <<"N", "a", "N">>,
     <<"[", "1", ",", ",", "2", "]">>,
     <<Apostrophe, "a", Quote, Apostrophe>>,
     <<"{", "x", ":", "t", "r", "u", " ", "1", ":", "0", "x", "f", "f", "}">>,
     <<"[", "a", " ", "b", ",", "1", "e", "2", "1", ",", "1", "e", "-", "7", ",", ".", "5", "]">>,
     <<"[", Quote, "\n", Backslash, "t", Quote>>,
     <<"{", Quote, "_", "_", "p", "r", "o", "t", "o", "_", "_", Quote, ":", "[", "1", "]", "}">>,
     <<"{", "{">>}

InitRoundTrip ==
    \E text \in StrictTexts \cup TruncatedTexts \cup LenientTexts :
        /\ jsonString = Str(text)
        /\ cursor = 0
        /\ tokens = <<>>
        /\ i = ParseStart.i
        /\ stacks = ParseStart.stacks
        /\ currentContainer = ParseStart.currentContainer
        /\ heap = ParseStart.heap
        /\ pc = "start"
        /\ result = ParseStart.result
        /\ error = ParseStart.error
        /\ legacy = LegacyIdle

SpecRoundTrip == InitRoundTrip /\ [][NextDecode]_vars

\* jaison(JSON.stringify(v)) returns w
DecodesAgainTo(v, w) ==
    LET again == jaison(JsonStringify(v))
    IN  again.pc = "returned" /\ again.result = w

RECURSIVE HasUnwritable(_)
HasUnwritable(v) ==
    IF v.t = "undefined" THEN TRUE
    ELSE IF v.t = "number" THEN v.nan
    ELSE IF v.t = ARRAY THEN \E n \in 1..Len(v.els) : HasUnwritable(v.els[n])
    ELSE IF v.t = OBJECT
    THEN v.proto # ObjectPrototype \/ \E n \in 1..Len(v.ents) : HasUnwritable(v.ents[n].v)
    ELSE FALSE

\* v with every negative zero made positive
RECURSIVE PositiveZeros(_)
PositiveZeros(v) ==
    IF v.t = "number" THEN (IF ~v.nan /\ v.m = 0 THEN Num(FALSE, 0, 0) ELSE v)
    ELSE IF v.t = ARRAY THEN [v EXCEPT !.els = [n \in 1..Len(v.els) |-> PositiveZeros(v.els[n])]]
    ELSE IF v.t = OBJECT
    THEN [v EXCEPT !.ents = [n \in 1..Len(v.ents) |->
                                [k |-> v.ents[n].k, v |-> PositiveZeros(v.ents[n].v)]]]
    ELSE v

-----------------------------------------------------------------------------
(* The token list *)

MixedAlphabet == {NoBreakSpace, Quote, "-", ".", "0", "x"}

InitMixed ==
    \E text \in SeqsUpTo(MixedAlphabet, MaxChars)
                  \cup {EveryBranchText \o core : core \in SeqsUpTo(MixedAlphabet, 2)} :
        InitTokenize(text)

SpecMixed == InitMixed /\ [][NextTokenize]_vars

\* a token of one of the five kinds, with a text of at least one character
IsWellFormedToken(token) ==
    /\ token.type \in {STRING_TOKEN, BRACKET, PUNCTUATION, NUMBER, IDENTIFIER}
    /\ Len(token.value) > 0
    /\ token.type = BRACKET => token.value \in {<<"{">>, <<"}">>, <<"[">>, <<"]">>}
    /\ token.type = PUNCTUATION => token.value \in {<<",">>, <<":">>}
    /\ token.type = STRING_TOKEN => token.value[1] = Quote
    /\ token.type = NUMBER =>
           /\ token.radix \in {BINARY, OCTAL, DECIMAL, HEXADECIMAL}
           /\ ~(token.isNegative /\ token.isPositive)

(* C27: every step of the tokenizer moves forward in the text, pushes
   nothing or one well-formed token at the end of the list, and raises
   nothing; when the text is consumed the list is handed to the parser. *)
C27_TokenizeNeverThrows ==
    [][pc = "tokenize" =>
          /\ pc' \in {"tokenize", "loop"}
          /\ error' = ""
          /\ InTokenizeLoop =>
                 /\ cursor' > cursor
                 /\ \/ tokens' = tokens
                    \/ /\ Front(tokens') = tokens
                       /\ Len(tokens') = Len(tokens) + 1
                       /\ IsWellFormedToken(Last(tokens'))
          /\ ~InTokenizeLoop => (pc' = "loop" /\ tokens' = tokens)]_vars

\* - , a no-break space and x : the space gave no token, the list is - x
C27_Witness ==
    /\ jsonString = Str(<<"-", NoBreakSpace, "x">>)
    /\ cursor = 3
    /\ pc = "loop"
    /\ tokens = <<Token(IDENTIFIER, <<"-">>), Token(IDENTIFIER, <<"x">>)>>


-----------------------------------------------------------------------------
(* Arguments that are not strings *)

(* C28: called with null, undefined, a number, a boolean, an array or an
   object, jaison raises the invalid-input error at once: no token is made,
   no container is created, nothing is returned, and no later step runs. *)
C28_NonStringRejected ==
    [][jsonString.t # "string" =>
          /\ pc = "start"
          /\ pc' = "thrown"
          /\ error' = InvalidInput
          /\ tokens' = <<>>
          /\ heap' = <<>>
          /\ stacks' = <<>>
          /\ i' = 0
          /\ result' = Undefined]_vars

\* jaison(null) has thrown
C28_Witness ==
    /\ jsonString = Null
    /\ pc = "thrown"
    /\ error = InvalidInput
    /\ tokens = <<>>


-----------------------------------------------------------------------------
(* src/index.js: the legacy entry point.  fixJsonString, its tokens *)

\* U+FF1B, the Chinese semicolon
FullwidthSemicolon == "U+FF1B"

LegacyToken(type, value, stringContents) ==
    [type |-> type, value |-> value, stringContents |-> stringContents]

\* "((?:[^"\\]|\\[\s\S])*) from position p on: where the repetition stops
RECURSIVE LegacyStringScan(_, _)
LegacyStringScan(text, p) ==
    IF p >= Len(text) THEN p
    ELSE IF At(text, p) = Quote THEN p
    ELSE IF At(text, p) = Backslash
    THEN (IF p + 1 < Len(text) THEN LegacyStringScan(text, p + 2) ELSE p)
    ELSE LegacyStringScan(text, p + 1)

\* [^"{}[\],:<U+FF1A><U+FF1B>]
LegacyOtherStop == {Quote, "{", "}", "[", "]", ",", ":", FullwidthColon, FullwidthSemicolon}

\* one tokenPattern.exec at lastIndex p: the token pushed (or none), the new
\* lastIndex and whether a Chinese mark was converted.  Where no alternative
\* matches at p the search moves on.
LegacyExec(text, p) ==
    LET char == At(text, p)
        q == LegacyStringScan(text, p + 1)
        pushed(token, newPos) ==
            [push |-> <<token>>, newPos |-> newPos,
             chinese |-> char \in {FullwidthColon, FullwidthSemicolon}]
    IN  IF char = Quote
        THEN (IF q >= Len(text)
              THEN pushed(LegacyToken("string", Slice(text, p, q), Slice(text, p + 1, q)), q)
              ELSE IF At(text, q) = Quote
              THEN pushed(LegacyToken("string", Slice(text, p, q + 1), Slice(text, p + 1, q)),
                          q + 1)
              ELSE [push |-> <<>>, newPos |-> p + 1, chinese |-> FALSE])
        ELSE IF char \in {"{", "}", "[", "]"}
        THEN pushed(LegacyToken("bracket", <<char>>, <<>>), p + 1)
        ELSE IF char \in {",", ":", FullwidthColon, FullwidthSemicolon}
        THEN pushed(LegacyToken("punctuation",
                                IF char = FullwidthColon THEN <<":">>
                                ELSE IF char = FullwidthSemicolon THEN <<",">>
                                ELSE <<char>>, <<>>), p + 1)
        ELSE IF char \in RegexSpace
        THEN pushed(LegacyToken("whitespace", Slice(text, p, ScanOver(text, p, RegexSpace)),
                                <<>>), ScanOver(text, p, RegexSpace))
        ELSE pushed(LegacyToken("other", Slice(text, p, ScanTo(text, p, LegacyOtherStop)), <<>>),
                    ScanTo(text, p, LegacyOtherStop))

\* the while loop of lines 26-66
RECURSIVE LegacyTokensFrom(_, _, _, _)
LegacyTokensFrom(text, p, toks, chinese) ==
    IF p >= Len(text) THEN [tokens |-> toks, chinesePunctuationFixed |-> chinese]
    ELSE LET step == LegacyExec(text, p)
         IN  LegacyTokensFrom(text, step.newPos, toks \o step.push, chinese \/ step.chinese)

LegacyTokens(text) == LegacyTokensFrom(text, 0, <<>>, FALSE)

(* fixJsonString, the repair loop *)

LegacyFixes ==
    [bracketCompleted |-> FALSE, stringClosed |-> FALSE, newlineFixed |-> FALSE,
     commaFixed |-> FALSE, valueCompleted |-> FALSE, extraCharsRemoved |-> FALSE,
     markdownRemoved |-> FALSE, chinesePunctuationFixed |-> FALSE]

\* lastToken = null
NullLastToken == "null"

\* closeChar of lines 138 and 266
CloseCharOf(open) == IF open = "{" THEN "}" ELSE "]"

\* .replace(/(?<!\\)\n/g, '\\n').replace(/(?<!\\)\r/g, '\\r')
RECURSIVE EscapeNewlinesFrom(_, _)
EscapeNewlinesFrom(contents, k) ==
    IF k > Len(contents) THEN <<>>
    ELSE LET bare == k = 1 \/ contents[k - 1] # Backslash
             here == IF contents[k] = "\n" /\ bare THEN <<Backslash, "n">>
                     ELSE IF contents[k] = "\r" /\ bare THEN <<Backslash, "r">>
                     ELSE <<contents[k]>>
         IN  here \o EscapeNewlinesFrom(contents, k + 1)

EscapeNewlines(contents) == EscapeNewlinesFrom(contents, 1)

\* stringContents.match(/(?<!\\)[\n\r]/)
HasBareNewline(contents) ==
    \E k \in 1..Len(contents) :
        contents[k] \in {"\n", "\r"} /\ (k = 1 \/ contents[k - 1] # Backslash)

\* lines 96-112
fixString(st, token) ==
    LET value == token.value
        isUnclosed == \/ Len(value) = 0
                      \/ value[Len(value)] # Quote
                      \/ (Len(value) >= 2 /\ value[Len(value) - 1] = Backslash)
        fixedContents == EscapeNewlines(token.stringContents)
    IN  [st EXCEPT !.fixes.newlineFixed = @ \/ HasBareNewline(token.stringContents),
                   !.fixes.stringClosed = @ \/ isUnclosed,
                   !.result = @ \o <<Quote>> \o fixedContents \o <<Quote>>,
                   !.lastToken = "string",
                   !.i = @ + 1]

\* the while loop of lines 136-140: closers for the openers above the
\* innermost expected one
RECURSIVE CompleteUntil(_, _, _)
CompleteUntil(stack, expected, out) ==
    IF Len(stack) > 0 /\ stack[Len(stack)] # expected
    THEN CompleteUntil(SubSeq(stack, 1, Len(stack) - 1), expected,
                       out \o <<CloseCharOf(stack[Len(stack)])>>)
    ELSE [stack |-> stack, out |-> out]

\* lines 114-161 with the repair of a mismatch left out
fixBracket_NoCompletion(st, token) ==
    LET char == token.value[1]
    IN  IF char \in {"{", "["}
        THEN [st EXCEPT !.stack = Append(@, char), !.result = Append(@, char),
                        !.lastToken = char, !.i = @ + 1]
        ELSE IF Len(st.stack) = 0
        THEN [st EXCEPT !.fixes.extraCharsRemoved = TRUE, !.pc = "break"]
        ELSE [st EXCEPT !.stack = SubSeq(@, 1, Len(@) - 1), !.result = Append(@, char),
                        !.lastToken = char, !.i = @ + 1]

\* lines 114-161
fixBracket(st, token) ==
    LET char == token.value[1]
        expected == IF char = "}" THEN "{" ELSE "["
        mismatch == st.stack[Len(st.stack)] # expected
        done == CompleteUntil(st.stack, expected, <<>>)
    IN  IF char \in {"{", "["}
        THEN [st EXCEPT !.stack = Append(@, char), !.result = Append(@, char),
                        !.lastToken = char, !.i = @ + 1]
        ELSE IF Len(st.stack) = 0
        THEN [st EXCEPT !.fixes.extraCharsRemoved = TRUE, !.pc = "break"]
        ELSE IF mismatch /\ Len(done.stack) = 0
        THEN [st EXCEPT !.fixes.bracketCompleted = TRUE, !.fixes.extraCharsRemoved = TRUE,
                        !.stack = <<>>, !.result = @ \o done.out, !.pc = "break"]
        ELSE [st EXCEPT !.fixes.bracketCompleted = @ \/ mismatch,
                        !.stack = SubSeq(done.stack, 1, Len(done.stack) - 1),
                        !.result = @ \o done.out \o <<char>>,
                        !.lastToken = char, !.i = @ + 1]

\* lines 175-200 and 225-244: the token after tokens[k] (k counts from 0),
\* one whitespace token skipped; none at the end
LegacyNextToken(toks, k) ==
    LET j == IF k + 1 < Len(toks) /\ toks[k + 2].type = "whitespace" THEN k + 2 ELSE k + 1
    IN  IF j >= Len(toks) THEN <<>> ELSE <<toks[j + 1]>>

LegacyCloserOrComma == {<<"}">>, <<"]">>, <<",">>}

\* lines 163-216
fixComma(st, token) ==
    LET inArray == Len(st.stack) > 0 /\ st.stack[Len(st.stack)] = "["
        shouldPrependNull == st.lastToken = "[" /\ inArray
        after == LegacyNextToken(st.tokens, st.i)
        atEnd == after = <<>>
        nextValue == IF atEnd THEN <<>> ELSE after[1].value
        shouldAddPlaceholder == ~atEnd /\ nextValue = <<",">> /\ inArray
        shouldSkipComma == (atEnd \/ nextValue \in LegacyCloserOrComma) /\ ~shouldAddPlaceholder
        prefix == IF shouldPrependNull THEN <<"n", "u", "l", "l">> ELSE <<>>
        body == IF shouldAddPlaceholder THEN <<",", "n", "u", "l", "l">>
                ELSE IF shouldSkipComma THEN <<>>
                ELSE token.value
    IN  [st EXCEPT !.fixes.commaFixed =
                       @ \/ shouldPrependNull \/ shouldAddPlaceholder \/ shouldSkipComma,
                   !.result = @ \o prefix \o body,
                   !.lastToken = "comma",
                   !.i = @ + 1]

\* lines 218-250
fixColon(st, token) ==
    LET after == LegacyNextToken(st.tokens, st.i)
        shouldAddValue == after = <<>> \/ after[1].value \in LegacyCloserOrComma
    IN  [st EXCEPT !.fixes.valueCompleted = @ \/ shouldAddValue,
                   !.result = @ \o token.value
                                \o (IF shouldAddValue THEN <<"n", "u", "l", "l">> ELSE <<>>),
                   !.lastToken = "colon",
                   !.i = @ + 1]

\* lines 252-254
fixWhitespace(st, token) == [st EXCEPT !.result = @ \o token.value, !.i = @ + 1]

\* lines 256-260
fixOther(st, token) ==
    [st EXCEPT !.result = @ \o token.value, !.lastToken = "other", !.i = @ + 1]

\* which branch of the loop body takes the token
LegacyBranchOf(token) ==
    IF token.type = "string" THEN "string"
    ELSE IF token.type = "bracket" THEN "bracket"
    ELSE IF token.value = <<",">> THEN "comma"
    ELSE IF token.value = <<":">> THEN "colon"
    ELSE token.type

\* lines 87-94
LegacyExtraChars(st, token) ==
    ~st.resultIsEmpty /\ Len(st.stack) = 0 /\ token.type # "whitespace"

\* the branch of lines 96-260 that takes the token
fixToken(st, token) ==
    CASE LegacyBranchOf(token) = "string" -> fixString(st, token)
      [] LegacyBranchOf(token) = "bracket" -> fixBracket(st, token)
      [] LegacyBranchOf(token) = "comma" -> fixComma(st, token)
      [] LegacyBranchOf(token) = "colon" -> fixColon(st, token)
      [] LegacyBranchOf(token) = "whitespace" -> fixWhitespace(st, token)
      [] OTHER -> fixOther(st, token)

\* one pass of the for loop, lines 84-261
FixIteration(st) ==
    LET token == st.tokens[st.i + 1]
        entered == IF st.resultIsEmpty /\ token.type # "whitespace"
                   THEN [st EXCEPT !.resultIsEmpty = FALSE] ELSE st
    IN  IF LegacyExtraChars(st, token)
        THEN [st EXCEPT !.fixes.extraCharsRemoved = TRUE, !.pc = "break"]
        ELSE fixToken(entered, token)

-----------------------------------------------------------------------------
(* JSON.parse of any text, as parseJson calls it on the repaired text *)

JsonAt(v, next) == [ok |-> TRUE, v |-> v, next |-> next]
JsonNone == [ok |-> FALSE, v |-> Undefined, next |-> 0]

\* the closing quote of the string literal whose body starts at p; 0 for none
RECURSIVE JsonStringEnd(_, _)
JsonStringEnd(s, p) ==
    IF p > Len(s) THEN 0
    ELSE IF s[p] = Quote THEN p
    ELSE IF s[p] = Backslash THEN JsonStringEnd(s, p + 2)
    ELSE JsonStringEnd(s, p + 1)

\* -?(0|[1-9][0-9]*)(\.[0-9]+)?([eE][+-]?[0-9]+)? at p: the position after it,
\* 0 where there is no number
JsonNumberEnd(s, p) ==
    LET a == IF p <= Len(s) /\ s[p] = "-" THEN p + 1 ELSE p
        b == IF a <= Len(s) /\ s[a] = "0" THEN a + 1 ELSE RunEnd(s, a, Digits)
        c == IF b <= Len(s) /\ s[b] = "." THEN RunEnd(s, b + 1, Digits) ELSE b
        signed == c + 1 <= Len(s) /\ s[c + 1] \in {"+", "-"}
        d == IF c <= Len(s) /\ s[c] \in {"e", "E"}
             THEN RunEnd(s, IF signed THEN c + 2 ELSE c + 1, Digits)
             ELSE c
    IN  IF b = a \/ (c # b /\ c = b + 1) THEN 0
        ELSE IF d # c /\ d = (IF signed THEN c + 2 ELSE c + 1) THEN 0
        ELSE d

JsonLiterals ==
    {[text |-> <<"n", "u", "l", "l">>, v |-> Null],
     [text |-> <<"t", "r", "u", "e">>, v |-> Bool(TRUE)],
     [text |-> <<"f", "a", "l", "s", "e">>, v |-> Bool(FALSE)]}

RECURSIVE JsonValueAt(_, _), JsonElementsAt(_, _, _), JsonMembersAt(_, _, _)
\* the value that starts at or after p
JsonValueAt(s, p) ==
    LET q == RunEnd(s, p, JsonWhitespace)
        inner == RunEnd(s, q + 1, JsonWhitespace)
        close == JsonStringEnd(s, q + 1)
        str == JsonParseString(SubSeq(s, q, close))
        numEnd == JsonNumberEnd(s, q)
    IN  IF q > Len(s) THEN JsonNone
        ELSE IF s[q] = "{"
        THEN (IF inner <= Len(s) /\ s[inner] = "}"
              THEN JsonAt([t |-> OBJECT, ents |-> <<>>, proto |-> ObjectPrototype], inner + 1)
              ELSE JsonMembersAt(s, inner, <<>>))
        ELSE IF s[q] = "["
        THEN (IF inner <= Len(s) /\ s[inner] = "]"
              THEN JsonAt([t |-> ARRAY, els |-> <<>>], inner + 1)
              ELSE JsonElementsAt(s, inner, <<>>))
        ELSE IF s[q] = Quote
        THEN (IF close = 0 \/ ~str.ok THEN JsonNone ELSE JsonAt(str.v, close + 1))
        ELSE IF \E lit \in JsonLiterals : SubSeq(s, q, Min(Len(s), q + Len(lit.text) - 1)) = lit.text
        THEN LET lit == CHOOSE l \in JsonLiterals :
                            SubSeq(s, q, Min(Len(s), q + Len(l.text) - 1)) = l.text
             IN  JsonAt(lit.v, q + Len(lit.text))
        ELSE IF numEnd = 0 THEN JsonNone
        ELSE JsonAt(ParseFloat(SubSeq(s, q, numEnd - 1)), numEnd)
\* the elements of an array from p on, up to its closing bracket
JsonElementsAt(s, p, els) ==
    LET el == JsonValueAt(s, p)
        q == RunEnd(s, el.next, JsonWhitespace)
    IN  IF ~el.ok \/ q > Len(s) THEN JsonNone
        ELSE IF s[q] = "," THEN JsonElementsAt(s, q + 1, Append(els, el.v))
        ELSE IF s[q] = "]" THEN JsonAt([t |-> ARRAY, els |-> Append(els, el.v)], q + 1)
        ELSE JsonNone
\* the members of an object from p on, up to its closing brace
JsonMembersAt(s, p, ents) ==
    LET k == RunEnd(s, p, JsonWhitespace)
        close == JsonStringEnd(s, k + 1)
        key == JsonParseString(SubSeq(s, k, close))
        colon == RunEnd(s, close + 1, JsonWhitespace)
        val == JsonValueAt(s, colon + 1)
        q == RunEnd(s, val.next, JsonWhitespace)
        own == DefineOwn(ents, key.v.s, val.v)
    IN  IF k > Len(s) \/ s[k] # Quote \/ close = 0 \/ ~key.ok THEN JsonNone
        ELSE IF colon > Len(s) \/ s[colon] # ":" THEN JsonNone
        ELSE IF ~val.ok \/ q > Len(s) THEN JsonNone
        ELSE IF s[q] = "," THEN JsonMembersAt(s, q + 1, own)
        ELSE IF s[q] = "}"
        THEN JsonAt([t |-> OBJECT, ents |-> own, proto |-> ObjectPrototype], q + 1)
        ELSE JsonNone

\* JSON.parse(text): the value, or a SyntaxError
JsonParseText(s) ==
    LET top == JsonValueAt(s, 1)
    IN  IF top.ok /\ RunEnd(s, top.next, JsonWhitespace) > Len(s) THEN Ok(top.v) ELSE Fail


-----------------------------------------------------------------------------
(* src/index.js: parseJson and fixJsonString as steps on the legacy record *)

\* !jsonString
LegacyFalsy(v) ==
    \/ v.t \in {"null", "undefined"}
    \/ v.t = "string" /\ v.s = <<>>
    \/ v.t = "number" /\ (v.nan \/ v.m = 0)
    \/ v.t = "boolean" /\ ~v.b

ErrorString(message) == [t |-> "string", message |-> message]

\* lines 283-289
LegacyInvalid ==
    [success |-> Bool(FALSE), data |-> Undefined, fixes |-> <<>>, fixedJson |-> <<>>,
     error |-> ErrorString("Invalid input: jsonString must be a non-empty string")]

\* lines 6-81: fixJsonString entered with an argument.  Only a string has
\* the replace method of line 12.
LegacyFixStart(arg) ==
    IF arg.t # "string"
    THEN [pc |-> "thrown", jsonString |-> arg,
          error |-> ErrorString("TypeError: jsonString.replace is not a function")]
    ELSE LET stripped == StripClosingFence(StripOpeningFence(arg.s))
             scanned == LegacyTokens(stripped)
         IN  [pc |-> "fix", jsonString |-> arg, tokens |-> scanned.tokens, i |-> 0,
              result |-> <<>>, stack |-> <<>>, resultIsEmpty |-> TRUE,
              lastToken |-> NullLastToken,
              fixes |-> [LegacyFixes EXCEPT
                            !.markdownRemoved = arg.s # stripped,
                            !.chinesePunctuationFixed = scanned.chinesePunctuationFixed]]

\* mutant of ParseJsonCall: the argument's type is not looked at
ParseJsonCall_TruthyOnly ==
    /\ legacy.pc = "call"
    /\ legacy' = IF LegacyFalsy(legacy.jsonString)
                 THEN [pc |-> "returned", jsonString |-> legacy.jsonString, ret |-> LegacyInvalid]
                 ELSE LegacyFixStart(legacy.jsonString)
    /\ UNCHANGED <<jsonString, cursor, tokens, i, stacks, currentContainer, heap, pc, result,
                   error>>

\* parseJson(jsonString), lines 281-293
ParseJsonCall ==
    /\ legacy.pc = "call"
    /\ legacy' = IF LegacyFalsy(legacy.jsonString) \/ legacy.jsonString.t # "string"
                 THEN [pc |-> "returned", jsonString |-> legacy.jsonString, ret |-> LegacyInvalid]
                 ELSE LegacyFixStart(legacy.jsonString)
    /\ UNCHANGED <<jsonString, cursor, tokens, i, stacks, currentContainer, heap, pc, result,
                   error>>

\* the loop of lines 84-261 on a token of one branch
FixStep(branch) ==
    /\ legacy.pc = "fix"
    /\ legacy.i < Len(legacy.tokens)
    /\ LegacyBranchOf(legacy.tokens[legacy.i + 1]) = branch
    /\ legacy' = FixIteration(legacy)
    /\ UNCHANGED <<jsonString, cursor, tokens, i, stacks, currentContainer, heap, pc, result,
                   error>>

FixString == FixStep("string")
FixBracket == FixStep("bracket")
FixComma == FixStep("comma")
FixColon == FixStep("colon")
FixWhitespace == FixStep("whitespace")
FixOther == FixStep("other")

\* stack.reverse().map(...).join('')
RECURSIVE CloseChars(_)
CloseChars(stack) ==
    IF stack = <<>> THEN <<>>
    ELSE <<CloseCharOf(stack[Len(stack)])>> \o CloseChars(SubSeq(stack, 1, Len(stack) - 1))

\* lines 263-273, after the loop ended or was left
FixCloseRemaining ==
    /\ legacy.pc = "break" \/ (legacy.pc = "fix" /\ legacy.i = Len(legacy.tokens))
    /\ legacy' = [legacy EXCEPT !.pc = "fixed",
                                !.fixes.bracketCompleted = @ \/ Len(legacy.stack) > 0,
                                !.result = @ \o CloseChars(legacy.stack)]
    /\ UNCHANGED <<jsonString, cursor, tokens, i, stacks, currentContainer, heap, pc, result,
                   error>>

\* lines 295-317
ParseJsonReturn ==
    /\ legacy.pc = "fixed"
    /\ LET parsedData == JsonParseText(legacy.result)
       IN  legacy' =
               [pc |-> "returned", jsonString |-> legacy.jsonString,
                ret |-> IF parsedData.ok
                        THEN [success |-> Bool(TRUE), data |-> parsedData.v,
                              fixes |-> legacy.fixes, fixedJson |-> legacy.result,
                              error |-> Undefined]
                        ELSE [success |-> Bool(FALSE), data |-> Undefined,
                              fixes |-> legacy.fixes, fixedJson |-> legacy.result,
                              error |-> ErrorString("JSON parsing failed")]]
    /\ UNCHANGED <<jsonString, cursor, tokens, i, stacks, currentContainer, heap, pc, result,
                   error>>

NextLegacy ==
    \/ ParseJsonCall
    \/ FixString
    \/ FixBracket
    \/ FixComma
    \/ FixColon
    \/ FixWhitespace
    \/ FixOther
    \/ FixCloseRemaining
    \/ ParseJsonReturn

\* the longest text of the exhaustive part of the legacy inputs
MaxLegacyChars == 4

LegacyAlphabet == {"{", "}", "[", "]", ",", ":", Quote, " ", "1"}

\* longer texts: a fenced object, Chinese marks, a raw line break inside a
\* string, a string cut after a backslash, nested containers closed wrongly
LegacyLongTexts ==
    {<<Backtick, Backtick, Backtick, "j", "s", "o", "n", "\n", "{", Quote, "a", Quote, ":",
       "1", "}", "\n", Backtick, Backtick, Backtick>>,
     <<"{", Quote, "a", Quote, FullwidthColon, "1", FullwidthSemicolon, Quote, "b", Quote,
       FullwidthColon, "[", "}">>,
     <<"[", Quote, "a", "\n", "b", Quote, ",", Quote, "a", Backslash>>,
     <<"{", Quote, "a", Quote, ":", "[", "{", Quote, "b", Quote, ":", "}", "]", "}", "x">>,
     <<"[", "[", "{", "]", ",", ",", "t", "r", "u", "e", "}">>}

LegacyArguments ==
    NonStrings \cup {NaN, Bool(FALSE), Num(FALSE, 0, 0)}
        \cup {Str(text) : text \in SeqsUpTo(LegacyAlphabet, MaxLegacyChars) \cup LegacyLongTexts}

\* parseJson called on an argument
InitLegacy ==
    \E arg \in LegacyArguments :
        /\ legacy = [pc |-> "call", jsonString |-> arg]
        /\ jsonString = Str(<<>>)
        /\ cursor = 0
        /\ tokens = <<>>
        /\ i = ParseStart.i
        /\ stacks = ParseStart.stacks
        /\ currentContainer = ParseStart.currentContainer
        /\ heap = ParseStart.heap
        /\ pc = "idle"
        /\ result = ParseStart.result
        /\ error = ParseStart.error

SpecLegacy == InitLegacy /\ [][NextLegacy]_vars

\* the brackets of a text outside its string literals: the openers left
\* unclosed, and whether every closer met its own opener
RECURSIVE BracketScan(_, _, _, _)
BracketScan(s, p, open, inString) ==
    IF p > Len(s) THEN [ok |-> TRUE, open |-> open]
    ELSE IF inString
    THEN (IF s[p] = Backslash THEN BracketScan(s, p + 2, open, TRUE)
          ELSE BracketScan(s, p + 1, open, s[p] # Quote))
    ELSE IF s[p] = Quote THEN BracketScan(s, p + 1, open, TRUE)
    ELSE IF s[p] \in {"{", "["} THEN BracketScan(s, p + 1, Append(open, s[p]), FALSE)
    ELSE IF s[p] \in {"}", "]"}
    THEN (IF open # <<>> /\ CloseCharOf(open[Len(open)]) = s[p]
          THEN BracketScan(s, p + 1, SubSeq(open, 1, Len(open) - 1), FALSE)
          ELSE [ok |-> FALSE, open |-> open])
    ELSE BracketScan(s, p + 1, open, FALSE)

BracketsOf(s) == BracketScan(s, 1, <<>>, FALSE)

\* the current token is a closing bracket and the stack is empty
LegacyCloserOnEmpty ==
    /\ legacy.pc = "fix"
    /\ legacy.i < Len(legacy.tokens)
    /\ legacy.tokens[legacy.i + 1].value \in {<<"}">>, <<"]">>}
    /\ legacy.stack = <<>>

\* C30: in fixJsonString the stack always equals the opening brackets written
\* to the output and not yet closed there, every closing bracket in the
\* output closes the innermost open one, a closing bracket that finds the
\* stack empty is dropped and ends the loop, and the returned text has every
\* bracket closed.
C30_BracketStackBalanced ==
    /\ [](/\ legacy.pc \in {"fix", "break"} =>
                 BracketsOf(legacy.result) = [ok |-> TRUE, open |-> legacy.stack]
          /\ legacy.pc = "fixed" =>
                 BracketsOf(legacy.result) = [ok |-> TRUE, open |-> <<>>])
    /\ [][LegacyCloserOnEmpty =>
              legacy'.pc = "break" /\ legacy'.result = legacy.result]_vars

\* a mismatched closer was repaired: the output holds the inserted closer and
\* the loop goes on
C30_Witness ==
    /\ legacy.pc = "fix"
    /\ legacy.fixes.bracketCompleted
    /\ Len(legacy.stack) > 0
    /\ Len(legacy.result) >= 4

\* C29: parseJson never throws; it returns an object whose success is a
\* boolean; with success false, data is undefined and error is a string; with
\* success true, error is undefined and data is what JSON.parse makes of
\* fixedJson.
C29_ParseJsonNeverThrows ==
    /\ legacy.pc # "thrown"
    /\ legacy.pc = "returned" =>
           /\ legacy.ret.success.t = "boolean"
           /\ ~legacy.ret.success.b =>
                  legacy.ret.data = Undefined /\ legacy.ret.error.t = "string"
           /\ legacy.ret.success.b =>
                  /\ legacy.ret.error = Undefined
                  /\ JsonParseText(legacy.ret.fixedJson) = Ok(legacy.ret.data)

\* a repaired text was decoded: an object with a member came back
C29_Witness ==
    /\ legacy.pc = "returned"
    /\ legacy.ret.success.b
    /\ legacy.ret.fixes.bracketCompleted
    /\ legacy.ret.data.t = OBJECT
    /\ legacy.ret.data.ents # <<>>


-----------------------------------------------------------------------------
(* Structure of the parse: links, the stack, pending keys *)

\* an opening bracket is about to be processed while a container is current
OpensInsideContainer == InLoop /\ IsOpening(Token_i) /\ currentContainer # 0

\* container id is the last element of ARRAY cur, or the entry of OBJECT cur
\* under key k
LinkedInto(h, cur, k, id) ==
    IF h[cur].type = ARRAY
    THEN h[cur].els # <<>> /\ Last(h[cur].els) = Ref(id)
    ELSE IsEntryOf(h, cur, k, Ref(id))

(* C31: an opening bracket processed while a container is current links the
   new container into that container in the same step, as the last element
   of an ARRAY or under the pending key of an OBJECT, whose pending key is
   then absent; so every container on the stack is part of the value of the
   bottom container. *)
C31_NewContainerLinked ==
    /\ [][OpensInsideContainer =>
              /\ LinkedInto(heap', currentContainer, heap[currentContainer].key, Len(heap) + 1)
              /\ ~heap'[currentContainer].hasKey]_vars
    /\ [](\A n \in 1..Len(stacks) : Reaches(heap, stacks[1], stacks[n]))

\* the same with the opening brackets met by an OBJECT that has no pending
\* key left out
C31_LinkedUnlessKeyExpected ==
    [][(OpensInsideContainer /\ ~InKeyPosition(St)) =>
          /\ LinkedInto(heap', currentContainer, heap[currentContainer].key, Len(heap) + 1)
          /\ ~heap'[currentContainer].hasKey
          /\ Reaches(heap', currentContainer, Len(heap) + 1)]_vars


\* the tokens ran out with containers still open
EndsUnclosed == pc = "loop" /\ i >= Len(tokens) /\ Len(stacks) >= 1

\* the closing brackets of the open containers, innermost first
RECURSIVE ClosersOf(_, _)
ClosersOf(h, stk) ==
    IF stk = <<>> THEN <<>>
    ELSE <<IF h[Last(stk)].type = OBJECT THEN RBrace ELSE RBracket>> \o ClosersOf(h, Front(stk))

(* C32: explicit and implicit close agree: when the tokens T run out with
   k >= 1 containers open, parse(T) returns the value that parse returns for
   T followed by the k closing brackets, also when the innermost open OBJECT
   holds a pending key at the end of T. *)
C32_ImplicitCloseAsExplicit ==
    EndsUnclosed => Outcome(EndStep(St)) = Outcome(parse(tokens \o ClosersOf(heap, stacks)))

\* the same with an innermost OBJECT that holds a pending key left out
C32_AgreeWithoutPendingKey ==
    (EndsUnclosed /\ ~heap[currentContainer].hasKey) =>
        Outcome(EndStep(St)) = Outcome(parse(tokens \o ClosersOf(heap, stacks)))


\* the opening and closing brackets among tokens[0..n-1]
OpenedBefore(toks, n) == Cardinality({m \in 1..n : IsOpening(toks[m])})
ClosedBefore(toks, n) == Cardinality({m \in 1..n : IsClosing(toks[m])})

(* C33: at the start of every iteration of the parser loop the current
   container is absent exactly when the stack is empty and is otherwise the
   top entry of the stack, and the depth of the stack is the number of
   opening brackets processed minus the number of closing brackets
   processed. *)
C33_CurrentIsTopOfStack ==
    pc = "loop" =>
        /\ currentContainer = 0 <=> stacks = <<>>
        /\ stacks # <<>> => currentContainer = Last(stacks)
        /\ Len(stacks) = OpenedBefore(tokens, i) - ClosedBefore(tokens, i)

\* a nested container was closed: the parent is current again, one level up
C33_Witness ==
    /\ pc = "loop"
    /\ i = 3
    /\ IsClosing(Tok(tokens, 2))
    /\ stacks = <<1>>
    /\ currentContainer = 1
    /\ Len(heap) = 2


(* C34: at every point of the parse only the container on top of the stack
   can hold a pending key: no OBJECT below the top holds one, so giving null
   to the pending key of the innermost container at the end of the input
   leaves no pending key in any container of the stack. *)
C34_OnlyTopHoldsPendingKey ==
    /\ [](\A n \in 1..(Len(stacks) - 1) : ~heap[stacks[n]].hasKey)
    /\ [][EndsUnclosed => \A n \in 1..Len(stacks) : ~heap'[stacks[n]].hasKey]_vars

\* an OBJECT opened under the pending key of another holds a pending key of
\* its own
C34_Witness ==
    /\ pc = "loop"
    /\ Len(stacks) = 2
    /\ heap[stacks[1]].type = OBJECT
    /\ heap[stacks[1]].ents # <<>>
    /\ heap[stacks[2]].hasKey


\* the value the loop decodes from tokens[i]: lines 116-140
DecodedValue ==
    LET j == IdentifierRunEnd(tokens, i + 1)
    IN  IF Token_i.type = IDENTIFIER /\ currentContainer # 0 /\ j - i > 1
        THEN Str(JoinValues(tokens, i, j))
        ELSE parseValueToken(Token_i).v

\* a decoded value is stored into the current OBJECT by this step
StoresIntoObject == InLoop /\ IsValueStep(tokens, St) /\ CurrentIs(OBJECT) /\ pc' = "loop"

(* C35: whenever a decoded value is stored into an OBJECT container, the
   container holds a defined pending key at that moment; the value is stored
   under exactly that key, and the container holds no pending key
   afterwards. *)
C35_StoredUnderPendingKey ==
    [][StoresIntoObject =>
          /\ heap[currentContainer].hasKey
          /\ IsEntryOf(heap', currentContainer, heap[currentContainer].key, DecodedValue)
          /\ ~heap'[currentContainer].hasKey]_vars

\* the same with the key __proto__ left out
C35_StoredUnlessProtoKey ==
    [][StoresIntoObject =>
          /\ heap[currentContainer].hasKey
          /\ heap[currentContainer].key # ProtoKey =>
                 IsEntryOf(heap', currentContainer, heap[currentContainer].key, DecodedValue)
          /\ ~heap'[currentContainer].hasKey]_vars


\* the containers on the stack
OnStack == {stacks[n] : n \in 1..Len(stacks)}

(* C36: after a container has been popped from the stack by a closing
   bracket, no later token changes its value, that is its entries, its
   elements and those of the containers it holds; a step changes only
   containers that are on the stack. *)
C36_PoppedNeverChanges ==
    [][\A id \in 1..Len(heap) :
           id \notin OnStack =>
               /\ heap'[id] = heap[id]
               /\ Materialize(heap', Ref(id)) = Materialize(heap, Ref(id))]_vars

\* a container was closed inside an array and a value was appended after it
C36_Witness ==
    /\ pc = "loop"
    /\ Len(heap) = 2
    /\ stacks = <<1>>
    /\ Len(heap[1].els) = 2
    /\ heap[1].els[1] = Ref(2)
    /\ heap[1].els[2].t # "ref"


\* the messages of the two errors raised for an empty stack
EmptyStackErrors ==
    {"Unmatched closing brace", "Unmatched closing bracket",
     "Unexpected punctuation outside of object or array context"}

(* C37: the two structural errors of an empty stack, the unmatched closing
   bracket and the punctuation outside any container, are raised only while
   the first token is processed: once a container has been opened the stack
   never becomes empty unless parse returns in the same step, so a later
   closing bracket or punctuation token never meets an empty stack. *)
C37_EmptyStackOnlyAtFirstToken ==
    /\ [][(pc' = "thrown" /\ error' \in EmptyStackErrors) => i = 0]_vars
    /\ [][(stacks # <<>> /\ stacks' = <<>>) => pc' = "returned"]_vars
    /\ []((pc = "loop" /\ i > 0 /\ i < Len(tokens)
              /\ (IsClosing(Token_i) \/ Token_i.type = PUNCTUATION)) => stacks # <<>>)

\* a closing bracket emptied the stack after another one had been processed:
\* parse returned in that step
C37_Witness ==
    /\ pc = "returned"
    /\ i = 3
    /\ Len(tokens) = 4
    /\ IsClosing(Tok(tokens, 2))
    /\ IsClosing(Tok(tokens, 3))
    /\ stacks = <<>>


-----------------------------------------------------------------------------
(* Termination: texts over the characters at which the tokenizer takes no
   ordinary token: a slash, a sign, a dot, a no-break space, quotes with a
   backslash and a line break *)

\* the longest text of the exhaustive part of the termination inputs
MaxTermChars == 3

TerminationAlphabet == {"/", "-", ".", NoBreakSpace, Quote, Backslash, "\n"}

\* the shortest literal that ends in the bad-escape recovery: "\" and a line break
BadEscapeText == <<Quote, Backslash, Quote, "\n">>

TerminationTexts ==
    SeqsUpTo(TerminationAlphabet, MaxTermChars)
        \cup {EveryBranchText \o core : core \in SeqsUpTo(TerminationAlphabet, 1)}
        \cup {BadEscapeText \o core : core \in SeqsUpTo(TerminationAlphabet, 1)}

\* jaison has not been called yet
InitTerminates ==
    /\ jsonString = Str(<<>>)
    /\ cursor = 0
    /\ tokens = <<>>
    /\ i = ParseStart.i
    /\ stacks = ParseStart.stacks
    /\ currentContainer = ParseStart.currentContainer
    /\ heap = ParseStart.heap
    /\ pc = "start"
    /\ result = ParseStart.result
    /\ error = ParseStart.error
    /\ legacy = LegacyIdle

\* jaison(text) up to its call of tokenize: the fences are stripped and the
\* tokenizer starts at position 0
JaisonCall ==
    /\ pc = "start"
    /\ \E text \in TerminationTexts :
           jsonString' = Str(StripClosingFence(StripOpeningFence(text)))
    /\ pc' = "tokenize"
    /\ UNCHANGED <<cursor, tokens, i, stacks, currentContainer, heap, result, error, legacy>>

NextTerminates == JaisonCall \/ NextTokenize

\* jaison runs on one thread: a step that can be taken is taken
SpecTerminates == InitTerminates /\ [][NextTerminates]_vars /\ WF_vars(NextTerminates)

Finished == pc \in {"returned", "thrown"}

(* C38: decode terminates on every finite input, with a returned value or
   with a raised error: every iteration of the tokenizer loop moves the
   cursor forward by at least one character (also after a slash that starts
   no comment, a sign or dot that starts no number, a whitespace-like
   character the tokenizer does not know, and a bad-escape recovery), and
   every iteration of the parser loop moves the token index forward. *)
C38_DecodeTerminates ==
    /\ <>Finished
    /\ [][InTokenizeLoop => cursor' > cursor]_vars
    /\ [][InLoop => (i' > i \/ pc' \in {"returned", "thrown"})]_vars

\* a text with a lone slash, a lone sign and a no-break space was decoded to
\* its end
C38_Witness ==
    /\ Finished
    /\ Len(jsonString.s) = MaxTermChars
    /\ \E a, b, c \in 1..Len(jsonString.s) :
           /\ jsonString.s[a] = "/"
           /\ jsonString.s[b] = NoBreakSpace
           /\ jsonString.s[c] = "-"
    /\ cursor = Len(jsonString.s)

====
